---- MODULE Spec2Model ----
(***************************************************************************)
(* Lead-management backend: the qualification engine                       *)
(* (backend/routes/qualification.py) and the count-metric part of the      *)
(* metric engine (backend/routes/kpis.py, backend/routes/metric_settings.py)*)
(* over the document store they share.                                     *)
(*                                                                         *)
(* Conventions.  A stored document is a function from its keys to values,  *)
(* so "key in document" is membership in DOMAIN and $set merges keys.      *)
(* A nullable value is <<>> for None/null and <<v>> for v.  Generated ids  *)
(* (uuid) are fresh per creation: a question id is <<n>>, the option ids   *)
(* of a created question are <<n, i>>, a lead id is n.  A handler is one   *)
(* action per stretch of code between two awaits on the store.  A value    *)
(* read from the clock is <<serial>>, the serial of the request that read  *)
(* it: values read by different requests differ.                           *)
(***************************************************************************)
EXTENDS Integers, Sequences, FiniteSets, TLC

VARIABLES
    leads,                    \* db.leads: lead_id -> document
    lead_seq,                 \* number of lead ids generated so far
    qualification_questions,  \* db.qualification_questions, in insertion order
    qualification_settings,   \* db.qualification_settings: <<>> or <<document>>
    lead_activities,          \* db.lead_activities, in insertion order
    requests,                 \* qualify_lead requests, by serial: locals and position
    config_ops,               \* number of admin changes to questions and settings so far
    metric_settings,          \* db.metric_settings, in insertion order
    metric_requests,          \* create_custom_metric / update_metric_setting requests
    kpi,                      \* a count_by_metric call of a get_kpis request:
                              \* <<>> or <<its arguments, position and result>>
    kpi_request,              \* a whole get_kpis request: <<>> or <<its locals and position>>
    lead_requests,            \* update_lead, delete_lead, delete_leads_bulk and
                              \* upload_historical_data requests, with their caller
    question_requests,        \* update / delete requests on qualification questions
    auth_calls,               \* the calls that went through get_current_user:
                              \* operation, session token and outcome
    lead_followups,           \* db.lead_followups, in insertion order
    users,                    \* db.users: user_id -> document
    user_requests             \* update_user_role / update_user_status requests

vars == <<leads, lead_seq, qualification_questions, qualification_settings,
          lead_activities, requests, config_ops, metric_settings, metric_requests, kpi,
          kpi_request, lead_requests, question_requests, auth_calls,
          lead_followups, users, user_requests>>

\* The follow-up store, the user store and the requests on the users
followVars == <<lead_followups, users, user_requests>>

qualVars == <<qualification_questions, qualification_settings, lead_activities,
              requests, config_ops>>

metricVars == <<metric_settings, metric_requests, kpi>>

otherVars == <<kpi_request, lead_requests, question_requests, auth_calls, followVars>>

-----------------------------------------------------------------------------
\* Bounds of the model

MaxLeads == 1

MaxKpiLeads == 2

MaxMetricRequests == 2

MaxQuestions == 2

MaxRequests == 2

MaxConfigOps == 3

MaxFormulaLeads == 4

MaxAvgLeads == 2

MaxLeadRequests == 2

MaxRemovalLeads == 2

MaxLeadSeq == 4

MaxQuestionRequests == 2

MaxEditLeads == 2

MaxAuthCalls == 2

\* to_list(100) of the question query
QuestionListLimit == 100

-----------------------------------------------------------------------------
\* Values

None == <<>>

Some(v) == <<v>>

\* user_id of the authenticated callers; Admins hold role Admin
Users == {"user_a", "user_b"}

Admins == {"user_a"}

\* db.users at the start: one document per caller, all active
InitialUsers ==
    [user_id \in {"user_a", "user_b", "user_c"} |->
        [user_id |-> user_id,
         role |-> IF user_id \in Admins THEN "Admin"
                  ELSE IF user_id = "user_b" THEN "Manager" ELSE "Employee",
         is_active |-> TRUE]]

\* dict.get(key, default)
Get(doc, key, default) == IF key \in DOMAIN doc THEN doc[key] ELSE default

\* dict.get(key) of a key whose value is never null: None without the key
GetOptional(doc, key) == IF key \in DOMAIN doc THEN Some(doc[key]) ELSE None

\* {"$set": upd} applied to doc
SetFields(doc, upd) ==
    [k \in (DOMAIN doc) \cup (DOMAIN upd) |-> IF k \in DOMAIN upd THEN upd[k] ELSE doc[k]]

\* cursor.to_list(n)
ToList(docs, n) == IF Len(docs) <= n THEN docs ELSE SubSeq(docs, 1, n)

-----------------------------------------------------------------------------
\* Request inputs

\* LeadCreate bodies (the fields the two engines read); an omitted field is
\* stored as None.  enquiry_date is an ISO date string, written as its day number
LeadInputs ==
    { [state |-> Some("Bihar"), segment |-> Some("Retail"),
       enquiry_stage |-> Some("Closed-Won"), enquiry_date |-> Some(1)],
      [state |-> Some("Delhi"), segment |-> Some("Retail"),
       enquiry_stage |-> Some("Closed-Won"), enquiry_date |-> Some(1)],
      [state |-> Some("Bihar"), segment |-> Some("Retail"),
       enquiry_stage |-> Some("Prospecting"), enquiry_date |-> Some(3)],
      [state |-> Some("Bihar")] }

\* The lead bodies used while exercising qualification
QualLeadInputs ==
    { [state |-> Some("Bihar"), enquiry_stage |-> Some("Prospecting"),
       enquiry_date |-> Some(1)] }

\* QualificationQuestionCreate bodies: options as {"text", "score"} dicts
QuestionInputs ==
    { [options |-> << [text |-> "Yes", score |-> 10], [text |-> "No", score |-> 0] >>,
       is_required |-> TRUE],
      [options |-> << [text |-> "Yes", score |-> 5], [text |-> "No", score |-> 0] >>,
       is_required |-> FALSE] }

\* Bodies of PUT /qualification/questions/{id}
QuestionUpdateInputs ==
    { [is_required |-> FALSE,
       options |-> << [option_id |-> <<1, 1>>, text |-> "Yes", score |-> 7] >>] }

\* threshold_score values of PUT /qualification/settings
ThresholdInputs == {10}

Answer(q, o) == [question_id |-> q, option_id |-> o]

\* "answers" lists of POST /qualification/leads/{id}/qualify
AnswerInputs ==
    { <<>>,
      << Answer(<<1>>, <<1, 1>>), Answer(<<2>>, <<2, 2>>) >>,
      << Answer(None, <<1, 1>>), Answer(<<1>>, None), Answer(<<2>>, <<2, 1>>) >> }

-----------------------------------------------------------------------------
\* Lead CRUD (backend/routes/leads.py)

\* create_lead: Lead(**lead_data).model_dump() inserted under a fresh lead_id
CreateLead(data) ==
    /\ lead_seq' = lead_seq + 1
    /\ leads' = [id \in (DOMAIN leads) \cup {lead_seq + 1} |->
                    IF id = lead_seq + 1
                    THEN [lead_id |-> lead_seq + 1,
                          state |-> Get(data, "state", None),
                          segment |-> Get(data, "segment", None),
                          enquiry_stage |-> Get(data, "enquiry_stage", None),
                          enquiry_date |-> Get(data, "enquiry_date", None),
                          last_followup_date |-> Get(data, "last_followup_date", None)]
                    ELSE leads[id]]
    /\ UNCHANGED <<qualVars, metricVars, otherVars>>

\* delete_lead: delete_one({"lead_id": lead_id}); 404 when nothing was deleted
DeleteLead(lead_id) ==
    /\ lead_id \in DOMAIN leads
    /\ leads' = [id \in (DOMAIN leads) \ {lead_id} |-> leads[id]]
    /\ UNCHANGED <<lead_seq, qualVars, metricVars, otherVars>>

-----------------------------------------------------------------------------
\* Qualification questions and settings (admin)

\* The options list built by create_qualification_question: AnswerOption gives
\* each option a fresh option_id and a score defaulting to 0
BuildOptions(qn, options) ==
    [i \in 1..Len(options) |->
        [option_id |-> <<qn, i>>,
         text |-> Get(options[i], "text", ""),
         score |-> Get(options[i], "score", 0)]]

CreateQuestion(data) ==
    /\ config_ops < MaxConfigOps
    /\ config_ops' = config_ops + 1
    /\ Len(qualification_questions) < MaxQuestions
    /\ LET qn == Len(qualification_questions) + 1
       IN qualification_questions' =
            Append(qualification_questions,
                   [question_id |-> <<qn>>,
                    options |-> BuildOptions(qn, data.options),
                    is_required |-> data.is_required,
                    is_active |-> TRUE])
    /\ UNCHANGED <<leads, lead_seq, qualification_settings, lead_activities,
                   requests, metricVars, otherVars>>

\* update_data of update_qualification_question for a request body
QuestionUpdateData(body) ==
    [k \in (DOMAIN body) \cap {"options", "is_required"} |->
        IF k = "options"
        THEN [i \in 1..Len(body.options) |->
                [option_id |-> Get(body.options[i], "option_id", None),
                 text |-> Get(body.options[i], "text", ""),
                 score |-> Get(body.options[i], "score", 0)]]
        ELSE body[k]]

\* update_one({"question_id": question_id}, {"$set": update_data})
UpdateQuestion(question_id, body) ==
    /\ config_ops < MaxConfigOps
    /\ config_ops' = config_ops + 1
    /\ \E i \in 1..Len(qualification_questions) :
            qualification_questions[i].question_id = question_id
    /\ qualification_questions' =
            [i \in 1..Len(qualification_questions) |->
                IF qualification_questions[i].question_id = question_id
                THEN SetFields(qualification_questions[i], QuestionUpdateData(body))
                ELSE qualification_questions[i]]
    /\ UNCHANGED <<leads, lead_seq, qualification_settings, lead_activities,
                   requests, metricVars, otherVars>>

\* delete_qualification_question: soft delete, {"$set": {"is_active": False}}
DeleteQuestion(question_id) ==
    /\ config_ops < MaxConfigOps
    /\ config_ops' = config_ops + 1
    /\ \E i \in 1..Len(qualification_questions) :
            qualification_questions[i].question_id = question_id
    /\ qualification_questions' =
            [i \in 1..Len(qualification_questions) |->
                IF qualification_questions[i].question_id = question_id
                THEN SetFields(qualification_questions[i], [is_active |-> FALSE])
                ELSE qualification_questions[i]]
    /\ UNCHANGED <<leads, lead_seq, qualification_settings, lead_activities,
                   requests, metricVars, otherVars>>

\* update_qualification_settings: upsert of the single settings document
UpdateSettings(threshold_score, user) ==
    /\ config_ops < MaxConfigOps
    /\ config_ops' = config_ops + 1
    /\ qualification_settings' =
            Some([settings_id |-> "qualification_settings",
                  threshold_score |-> threshold_score,
                  updated_by |-> user])
    /\ UNCHANGED <<leads, lead_seq, qualification_questions, lead_activities,
                   requests, metricVars, otherVars>>

-----------------------------------------------------------------------------
\* qualify_lead (backend/routes/qualification.py)

\* Variant: the is_active filter is left out of the question query
AllQuestions(questions) == ToList(questions, QuestionListLimit)

\* find({"is_active": True}).to_list(100)
ActiveQuestions(questions) ==
    ToList(SelectSeq(questions, LAMBDA q : q.is_active), QuestionListLimit)

\* question_map = {q["question_id"]: q for q in questions}: a later document
\* with the same id replaces an earlier one
InQuestionMap(questions, question_id) ==
    \E i \in 1..Len(questions) : questions[i].question_id = question_id

QuestionMap(questions, question_id) ==
    LET last == CHOOSE i \in 1..Len(questions) :
                    /\ questions[i].question_id = question_id
                    /\ \A j \in (i + 1)..Len(questions) :
                            questions[j].question_id # question_id
    IN questions[last]

\* Variant: an option_id that matches nothing falls back to the first option
OptionScoreOrFirst(question, option_id) ==
    LET options == Get(question, "options", <<>>)
        hits == { i \in 1..Len(options) : options[i].option_id = option_id }
    IN IF options = <<>>
       THEN 0
       ELSE IF hits = {}
            THEN Get(options[1], "score", 0)
            ELSE Get(options[CHOOSE i \in hits : \A j \in hits : i <= j], "score", 0)

\* The score of the selected option: the first option whose option_id equals
\* the submitted one, 0 when there is none
OptionScore(question, option_id) ==
    LET options == Get(question, "options", <<>>)
        hits == { i \in 1..Len(options) : options[i].option_id = option_id }
    IN IF hits = {}
       THEN 0
       ELSE Get(options[CHOOSE i \in hits : \A j \in hits : i <= j], "score", 0)

\* Variant: the loop assigns the score to total_score instead of adding it
RECURSIVE ScoreAnswersAssign(_, _, _, _)
ScoreAnswersAssign(answers_input, questions, user, now) ==
    IF answers_input = <<>>
    THEN [total_score |-> 0, qualification_answers |-> <<>>]
    ELSE LET n == Len(answers_input)
             ans == answers_input[n]
             before == ScoreAnswersAssign(SubSeq(answers_input, 1, n - 1), questions, user, now)
             question_id == Get(ans, "question_id", None)
             option_id == Get(ans, "option_id", None)
             known == \E i \in 1..Len(questions) : questions[i].question_id = question_id
         IN IF ~known
            THEN before
            ELSE LET question == questions[CHOOSE i \in 1..Len(questions) :
                                              questions[i].question_id = question_id]
                     hits == { i \in 1..Len(question.options) :
                                 question.options[i].option_id = option_id }
                     score == IF hits = {} THEN 0
                              ELSE question.options[CHOOSE i \in hits : TRUE].score
                 IN [total_score |-> score,
                     qualification_answers |->
                        Append(before.qualification_answers,
                               [question_id |-> question_id,
                                option_id |-> option_id,
                                score |-> score,
                                answered_at |-> now,
                                answered_by |-> user])]

\* The loop over answers_input: <<total_score, qualification_answers>>
RECURSIVE ScoreAnswers(_, _, _, _)
ScoreAnswers(answers_input, questions, user, now) ==
    IF answers_input = <<>>
    THEN [total_score |-> 0, qualification_answers |-> <<>>]
    ELSE LET n == Len(answers_input)
             ans == answers_input[n]
             before == ScoreAnswers(SubSeq(answers_input, 1, n - 1), questions, user, now)
             question_id == Get(ans, "question_id", None)
             option_id == Get(ans, "option_id", None)
         IN IF ~InQuestionMap(questions, question_id)
            THEN before
            ELSE LET score == OptionScore(QuestionMap(questions, question_id), option_id)
                 IN [total_score |-> before.total_score + score,
                     qualification_answers |->
                        Append(before.qualification_answers,
                               [question_id |-> question_id,
                                option_id |-> option_id,
                                score |-> score,
                                answered_at |-> now,
                                answered_by |-> user])]

\* threshold = settings.get("threshold_score", 0) if settings else 0
ThresholdOf(settings) ==
    IF settings = None THEN 0 ELSE Get(settings[1], "threshold_score", 0)

\* Variant: a score equal to the threshold does not qualify
IsQualifiedStrict(total_score, threshold) == total_score > threshold

\* is_qualified = total_score >= threshold
IsQualified(total_score, threshold) == total_score >= threshold

\* Variant: qualified_at and qualified_by are set only when qualified
QualifyUpdateDocKeepStamp(req, now) ==
    IF req.is_qualified
    THEN [qualification_answers |-> req.qualification_answers,
          qualification_score |-> req.total_score,
          is_qualified |-> req.is_qualified,
          qualified_at |-> now,
          qualified_by |-> Some(req.user),
          updated_at |-> now]
    ELSE [qualification_answers |-> req.qualification_answers,
          qualification_score |-> req.total_score,
          is_qualified |-> req.is_qualified,
          updated_at |-> now]

\* The $set document of the update of the lead
QualifyUpdateDoc(req, now) ==
    [qualification_answers |-> req.qualification_answers,
     qualification_score |-> req.total_score,
     is_qualified |-> req.is_qualified,
     qualified_at |-> IF req.is_qualified THEN now ELSE None,
     qualified_by |-> IF req.is_qualified THEN Some(req.user) ELSE None,
     updated_at |-> now]

\* The LeadActivity document of the request
QualifyActivity(req, now) ==
    [lead_id |-> req.lead_id,
     user_id |-> req.user,
     action |-> IF req.is_qualified THEN "qualified" ELSE "qualification_updated",
     field_changes |->
        [qualification_score |-> [old |-> req.old_score, new |-> req.total_score],
         is_qualified |-> [old |-> req.old_qualified, new |-> req.is_qualified]],
     notes |-> <<req.total_score, req.threshold,
                 IF req.is_qualified THEN "Qualified" ELSE "Faulty">>,
     created_at |-> now]

\* The 200 response of the request
QualifyResponse(req) ==
    [code |-> 200,
     lead_id |-> req.lead_id,
     total_score |-> req.total_score,
     threshold |-> req.threshold,
     is_qualified |-> req.is_qualified,
     status |-> IF req.is_qualified THEN "Qualified" ELSE "Faulty"]

NotFound == [code |-> 404]

NoResponse == [code |-> 0]

\* Lines 195-204: the request arrives, the lead is looked up, 404 when absent
QualifyFindLead(lead_id, answers, user) ==
    /\ Len(requests) < MaxRequests
    /\ LET found == lead_id \in DOMAIN leads
           lead == IF found THEN leads[lead_id] ELSE << >>
       IN requests' =
            Append(requests,
                   [lead_id |-> lead_id,
                    answers_input |-> answers,
                    user |-> user,
                    pc |-> IF found THEN "find_questions" ELSE "done",
                    old_qualified |-> IF found /\ "is_qualified" \in DOMAIN lead
                                      THEN Some(lead.is_qualified) ELSE None,
                    old_score |-> IF found THEN Get(lead, "qualification_score", 0) ELSE 0,
                    total_score |-> 0,
                    qualification_answers |-> <<>>,
                    threshold |-> 0,
                    is_qualified |-> FALSE,
                    response |-> IF found THEN NoResponse ELSE NotFound])
    /\ UNCHANGED <<leads, lead_seq, qualification_questions, qualification_settings,
                   lead_activities, config_ops, metricVars, otherVars>>

\* Variant: the total starts from the score the lead already holds
QualifyScoreIncremental(r) ==
    /\ requests[r].pc = "find_questions"
    /\ LET req == requests[r]
           scored == ScoreAnswers(req.answers_input,
                                  ActiveQuestions(qualification_questions),
                                  req.user, Some(r))
       IN requests' = [requests EXCEPT ![r] =
                          [req EXCEPT !.pc = "find_settings",
                                      !.total_score = req.old_score + scored.total_score,
                                      !.qualification_answers = scored.qualification_answers]]
    /\ UNCHANGED <<leads, lead_seq, qualification_questions, qualification_settings,
                   lead_activities, config_ops, metricVars, otherVars>>

\* Lines 206-242: the active questions are read and the answers scored
QualifyScore(r) ==
    /\ requests[r].pc = "find_questions"
    /\ LET req == requests[r]
           scored == ScoreAnswers(req.answers_input,
                                  ActiveQuestions(qualification_questions),
                                  req.user, Some(r))
       IN requests' = [requests EXCEPT ![r] =
                          [req EXCEPT !.pc = "find_settings",
                                      !.total_score = scored.total_score,
                                      !.qualification_answers = scored.qualification_answers]]
    /\ UNCHANGED <<leads, lead_seq, qualification_questions, qualification_settings,
                   lead_activities, config_ops, metricVars, otherVars>>

\* Lines 244-256: the settings are read and the lead classified
QualifyClassify(r) ==
    /\ requests[r].pc = "find_settings"
    /\ LET req == requests[r]
           threshold == ThresholdOf(qualification_settings)
       IN requests' = [requests EXCEPT ![r] =
                          [req EXCEPT !.pc = "update_lead",
                                      !.threshold = threshold,
                                      !.is_qualified = IsQualified(req.total_score, threshold)]]
    /\ UNCHANGED <<leads, lead_seq, qualification_questions, qualification_settings,
                   lead_activities, config_ops, metricVars, otherVars>>

\* Variant: the update applies only while the lead still holds the score the
\* request read (compare-and-set)
QualifyUpdateLeadIfUnchanged(r) ==
    /\ requests[r].pc = "update_lead"
    /\ LET req == requests[r]
       IN leads' = [id \in DOMAIN leads |->
                        IF id = req.lead_id
                           /\ Get(leads[id], "qualification_score", 0) = req.old_score
                        THEN SetFields(leads[id], QualifyUpdateDoc(req, Some(r)))
                        ELSE leads[id]]
    /\ requests' = [requests EXCEPT ![r].pc = "insert_activity"]
    /\ UNCHANGED <<lead_seq, qualification_questions, qualification_settings,
                   lead_activities, config_ops, metricVars, otherVars>>

\* Variant: the update pushes the answers onto the stored ones and increments
\* the stored score
QualifyUpdateLeadAppend(r) ==
    /\ requests[r].pc = "update_lead"
    /\ LET req == requests[r]
           doc == QualifyUpdateDoc(req, Some(r))
       IN leads' = [id \in DOMAIN leads |->
                        IF id = req.lead_id
                        THEN SetFields(leads[id],
                                SetFields(doc,
                                   [qualification_answers |->
                                        Get(leads[id], "qualification_answers", <<>>)
                                            \o req.qualification_answers,
                                    qualification_score |->
                                        Get(leads[id], "qualification_score", 0)
                                            + req.total_score]))
                        ELSE leads[id]]
    /\ requests' = [requests EXCEPT ![r].pc = "insert_activity"]
    /\ UNCHANGED <<lead_seq, qualification_questions, qualification_settings,
                   lead_activities, config_ops, metricVars, otherVars>>

\* Lines 258-268: update_one({"lead_id": lead_id}, {"$set": ...}), which matches
\* nothing when the lead was deleted meanwhile
QualifyUpdateLead(r) ==
    /\ requests[r].pc = "update_lead"
    /\ LET req == requests[r]
       IN leads' = [id \in DOMAIN leads |->
                        IF id = req.lead_id
                        THEN SetFields(leads[id], QualifyUpdateDoc(req, Some(r)))
                        ELSE leads[id]]
    /\ requests' = [requests EXCEPT ![r].pc = "insert_activity"]
    /\ UNCHANGED <<lead_seq, qualification_questions, qualification_settings,
                   lead_activities, config_ops, metricVars, otherVars>>

\* Lines 270-292: the activity entry is inserted and the response returned
QualifyLogActivity(r) ==
    /\ requests[r].pc = "insert_activity"
    /\ lead_activities' = Append(lead_activities, QualifyActivity(requests[r], Some(r)))
    /\ requests' = [requests EXCEPT ![r].pc = "done",
                                    ![r].response = QualifyResponse(requests[r])]
    /\ UNCHANGED <<leads, lead_seq, qualification_questions, qualification_settings,
                   config_ops, metricVars, otherVars>>

-----------------------------------------------------------------------------
\* The qualification system: leads, questions, settings and qualify requests

InitStore ==
    /\ leads = <<>>
    /\ lead_seq = 0
    /\ qualification_questions = <<>>
    /\ qualification_settings = None
    /\ lead_activities = <<>>
    /\ requests = <<>>
    /\ config_ops = 0
    /\ metric_settings = <<>>
    /\ metric_requests = <<>>
    /\ kpi = <<>>
    /\ kpi_request = <<>>
    /\ lead_requests = <<>>
    /\ question_requests = <<>>
    /\ auth_calls = <<>>
    /\ lead_followups = <<>>
    /\ users = InitialUsers
    /\ user_requests = <<>>

NextQualify ==
    \/ \E data \in QualLeadInputs : lead_seq < MaxLeads /\ CreateLead(data)
    \/ \E id \in 1..MaxLeads : DeleteLead(id)
    \/ \E data \in QuestionInputs : CreateQuestion(data)
    \/ \E n \in 1..MaxQuestions, body \in QuestionUpdateInputs : UpdateQuestion(<<n>>, body)
    \/ \E n \in 1..MaxQuestions : DeleteQuestion(<<n>>)
    \/ \E t \in ThresholdInputs, user \in Admins : UpdateSettings(t, user)
    \/ \E id \in 1..MaxLeads, answers \in AnswerInputs, user \in Users :
            QualifyFindLead(id, answers, user)
    \/ \E r \in 1..Len(requests) : QualifyScore(r)
    \/ \E r \in 1..Len(requests) : QualifyClassify(r)
    \/ \E r \in 1..Len(requests) : QualifyUpdateLead(r)
    \/ \E r \in 1..Len(requests) : QualifyLogActivity(r)

SpecQualify == InitStore /\ [][NextQualify]_vars

-----------------------------------------------------------------------------
\* Properties of qualify_lead

Requests == 1..Len(requests)

\* The steps of request r
ScoreStep(r) == requests[r].pc = "find_questions" /\ requests'[r].pc = "find_settings"

ClassifyStep(r) == requests[r].pc = "find_settings" /\ requests'[r].pc = "update_lead"

\* The update of request r reaches a lead that still exists
WriteStep(r) ==
    /\ requests[r].pc = "update_lead"
    /\ requests'[r].pc = "insert_activity"
    /\ requests[r].lead_id \in DOMAIN leads

RespondStep(r) == requests[r].pc = "insert_activity" /\ requests'[r].pc = "done"

\* Request r has updated (or tried to update) its lead
HasWritten(r) == requests[r].pc \in {"insert_activity", "done"}

RECURSIVE SumScores(_)
SumScores(entries) ==
    IF entries = <<>> THEN 0 ELSE Head(entries).score + SumScores(Tail(entries))

\* The active question with this id in the store, as a set of indices
ActiveWithId(question_id) ==
    { i \in 1..Len(qualification_questions) :
        /\ qualification_questions[i].is_active
        /\ qualification_questions[i].question_id = question_id }

\* The options of a stored question that carry this option_id
OptionsWithId(question, option_id) ==
    { j \in 1..Len(question.options) : question.options[j].option_id = option_id }

\* What one submitted answer is worth against the stored questions
Contribution(ans) ==
    IF ActiveWithId(ans.question_id) = {}
    THEN 0
    ELSE LET question == qualification_questions[CHOOSE i \in ActiveWithId(ans.question_id) : TRUE]
             hits == OptionsWithId(question, ans.option_id)
         IN IF hits = {} THEN 0
            ELSE question.options[CHOOSE j \in hits : \A k \in hits : j <= k].score

RECURSIVE SumContributions(_)
SumContributions(answers) ==
    IF answers = <<>> THEN 0
    ELSE Contribution(Head(answers)) + SumContributions(Tail(answers))

ScenarioAnswers == << Answer(<<1>>, <<1, 1>>), Answer(<<2>>, <<2, 2>>) >>

\* Q1 {Yes: 10, No: 0}, Q2 {Yes: 5, No: 0}, both active, threshold 10
ScenarioConfig ==
    /\ Len(qualification_questions) = 2
    /\ \A i \in 1..2 : qualification_questions[i].is_active
    /\ \A i \in 1..2 : Len(qualification_questions[i].options) = 2
    /\ qualification_questions[1].options[1].score = 10
    /\ qualification_questions[1].options[2].score = 0
    /\ qualification_questions[2].options[1].score = 5
    /\ qualification_questions[2].options[2].score = 0
    /\ qualification_settings # None
    /\ qualification_settings[1].threshold_score = 10

\* C1: the threshold a call uses is the threshold_score of the stored settings
\* when it reads them (0 without a settings document), and the is_qualified it
\* stores on the lead and returns is (total_score >= that threshold); equality
\* qualifies.
C1_ClassifiedByThreshold ==
    [][\A r \in Requests :
        /\ ClassifyStep(r) =>
              requests'[r].threshold =
                 (IF qualification_settings = <<>> THEN 0
                  ELSE qualification_settings[1].threshold_score)
        /\ WriteStep(r) =>
              leads'[requests[r].lead_id].is_qualified =
                 (requests[r].total_score >= requests[r].threshold)
        /\ RespondStep(r) =>
              /\ requests'[r].response.code = 200
              /\ requests'[r].response.total_score = requests[r].total_score
              /\ requests'[r].response.threshold = requests[r].threshold
              /\ requests'[r].response.is_qualified =
                    (requests[r].total_score >= requests[r].threshold)]_vars

\* The scenario of C1: answers [Q1 Yes, Q2 No] against threshold 10 were stored
\* and returned as total 10, Qualified
C1_Witness ==
    /\ ScenarioConfig
    /\ \E r \in Requests :
        /\ requests[r].pc = "done"
        /\ requests[r].answers_input = ScenarioAnswers
        /\ requests[r].response.code = 200
        /\ requests[r].response.total_score = 10
        /\ requests[r].response.threshold = 10
        /\ requests[r].response.is_qualified
        /\ requests[r].lead_id \in DOMAIN leads
        /\ Get(leads[requests[r].lead_id], "updated_at", None) = Some(r)
        /\ leads[requests[r].lead_id].is_qualified
        /\ leads[requests[r].lead_id].qualification_score = 10

\* C2: the total_score a call computes is the sum, over its submitted answers
\* whose question is active in the store when the call reads it, of the score of
\* the chosen option (0 when the option is not found); is_required plays no
\* part, and an empty answers list gives 0.
C2_TotalIsSumOfChosenScores ==
    [][\A r \in Requests :
        ScoreStep(r) =>
            /\ requests'[r].total_score = SumContributions(requests[r].answers_input)
            /\ requests[r].answers_input = <<>> => requests'[r].total_score = 0]_vars

\* A call scored [Q1 Yes, Q2 No] as 10, and a call with no answers scored 0
\* while a required question was left unanswered
C2_Witness ==
    /\ \E r \in Requests :
        /\ requests[r].pc # "find_questions"
        /\ requests[r].response.code # 404
        /\ requests[r].answers_input = ScenarioAnswers
        /\ requests[r].total_score = 10
    /\ \E r \in Requests :
        /\ requests[r].pc # "find_questions"
        /\ requests[r].response.code # 404
        /\ requests[r].answers_input = <<>>
        /\ requests[r].total_score = 0
        /\ \E i \in 1..Len(qualification_questions) :
              /\ qualification_questions[i].is_active
              /\ qualification_questions[i].is_required

\* The answers of request r that name no active question of the store
UnknownAnswers(r) ==
    { i \in 1..Len(requests[r].answers_input) :
        ActiveWithId(requests[r].answers_input[i].question_id) = {} }

\* The answers of request r that name an active question and none of its options
UnknownOptionAnswers(r) ==
    { i \in 1..Len(requests[r].answers_input) :
        LET ans == requests[r].answers_input[i]
        IN /\ ActiveWithId(ans.question_id) # {}
           /\ \A q \in ActiveWithId(ans.question_id) :
                 OptionsWithId(qualification_questions[q], ans.option_id) = {} }

\* C3: an answer whose question_id names no active question when the call reads
\* the questions (never created, soft-deleted, or no id at all) is skipped: the
\* recorded answers hold one entry per remaining answer and none for it, the
\* total is the sum of the recorded scores, and the call goes on.
C3_UnknownQuestionSkipped ==
    [][\A r \in Requests :
        ScoreStep(r) =>
            LET entries == requests'[r].qualification_answers
            IN /\ \A j \in 1..Len(entries) : ActiveWithId(entries[j].question_id) # {}
               /\ Len(entries) =
                     Len(requests[r].answers_input) - Cardinality(UnknownAnswers(r))
               /\ requests'[r].total_score = SumScores(entries)
               /\ requests'[r].response.code # 404]_vars

\* A call has scored an answer to a soft-deleted question and an answer with no
\* question id: neither was recorded
C3_Witness ==
    \E r \in Requests, i \in 1..Len(qualification_questions) :
        /\ requests[r].pc = "done"
        /\ requests[r].response.code = 200
        /\ ~qualification_questions[i].is_active
        /\ \E a \in 1..Len(requests[r].answers_input) :
              requests[r].answers_input[a].question_id = qualification_questions[i].question_id
        /\ \E a \in 1..Len(requests[r].answers_input) :
              requests[r].answers_input[a].question_id = None
        /\ \A j \in 1..Len(requests[r].qualification_answers) :
              /\ requests[r].qualification_answers[j].question_id
                    # qualification_questions[i].question_id
              /\ requests[r].qualification_answers[j].question_id # None
        /\ Len(requests[r].qualification_answers) < Len(requests[r].answers_input)

\* C4: an answer that names an active question and an option_id that matches
\* none of its options is recorded, with score 0, and adds nothing to the total.
C4_UnknownOptionScoresZero ==
    [][\A r \in Requests :
        ScoreStep(r) =>
            LET entries == requests'[r].qualification_answers
            IN /\ \A i \in UnknownOptionAnswers(r) :
                    \E j \in 1..Len(entries) :
                        /\ entries[j].question_id = requests[r].answers_input[i].question_id
                        /\ entries[j].option_id = requests[r].answers_input[i].option_id
                        /\ entries[j].score = 0
               /\ requests'[r].total_score =
                     SumContributions(
                        SelectSeq(requests[r].answers_input,
                                  LAMBDA ans :
                                    /\ ActiveWithId(ans.question_id) # {}
                                    /\ \E q \in ActiveWithId(ans.question_id) :
                                          OptionsWithId(qualification_questions[q],
                                                        ans.option_id) # {}))]_vars

\* A lead stores an answer to an existing question with an option the question
\* does not have, with score 0, next to an answer that scored
C4_Witness ==
    \E id \in DOMAIN leads :
        /\ "qualification_answers" \in DOMAIN leads[id]
        /\ \E j \in 1..Len(leads[id].qualification_answers) :
              LET e == leads[id].qualification_answers[j]
              IN /\ e.score = 0
                 /\ e.option_id = None
                 /\ ActiveWithId(e.question_id) # {}
        /\ leads[id].qualification_score > 0

\* The five qualification fields of a lead document, None for a key it lacks
QualificationFields(lead) ==
    [k \in {"qualification_answers", "qualification_score", "is_qualified",
            "qualified_at", "qualified_by"} |->
        IF k \in DOMAIN lead THEN Some(lead[k]) ELSE None]

\* C5: when the lead was last written by a call with the same answers and the
\* questions and the threshold have not changed since, a second call leaves
\* qualification_score and is_qualified as the first left them.
C5_RequalifyIdempotent ==
    [][\A r \in Requests :
        (/\ WriteStep(r)
         /\ "updated_at" \in DOMAIN leads[requests[r].lead_id]
         /\ LET first == leads[requests[r].lead_id].updated_at[1]
            IN requests[first].answers_input = requests[r].answers_input)
        => LET id == requests[r].lead_id
           IN /\ leads'[id].qualification_score = leads[id].qualification_score
              /\ leads'[id].is_qualified = leads[id].is_qualified]_vars

\* A second call with the same answers, started after the first had stored a
\* positive score, has written the lead
C5_Witness ==
    \E first \in Requests, second \in Requests :
        /\ first # second
        /\ requests[first].pc = "done"
        /\ HasWritten(second)
        /\ requests[first].lead_id = requests[second].lead_id
        /\ requests[first].answers_input = requests[second].answers_input
        /\ requests[first].total_score > 0
        /\ requests[second].old_score = requests[first].total_score
        /\ requests[second].lead_id \in DOMAIN leads
        /\ leads[requests[second].lead_id].updated_at = Some(second)
        /\ leads[requests[second].lead_id].qualification_score > 0

\* C6 as stated: a call that classifies the lead as Faulty leaves the lead's
\* qualified_at and qualified_by as they were.
C6_FaultyKeepsQualifiedStamp ==
    [][\A r \in Requests :
        (WriteStep(r) /\ ~requests[r].is_qualified)
        => LET id == requests[r].lead_id
           IN /\ Get(leads'[id], "qualified_at", None) = Get(leads[id], "qualified_at", None)
              /\ Get(leads'[id], "qualified_by", None) = Get(leads[id], "qualified_by", None)]_vars

\* C6, amended: every call that reaches the lead overwrites qualified_at and
\* qualified_by together with qualification_score, is_qualified and
\* qualification_answers: with the time of the write and the caller when it
\* classifies the lead as Qualified, with null when it classifies it as Faulty.
C6_StampSetOrCleared ==
    [][\A r \in Requests :
        WriteStep(r)
        => LET stored == QualificationFields(leads'[requests[r].lead_id])
           IN /\ stored.is_qualified = Some(requests[r].is_qualified)
              /\ stored.qualified_at =
                    Some(IF requests[r].is_qualified THEN Some(r) ELSE None)
              /\ stored.qualified_by =
                    Some(IF requests[r].is_qualified THEN Some(requests[r].user) ELSE None)
              /\ stored.qualification_score # None
              /\ stored.qualification_answers # None]_vars

\* A lead that one call had qualified was then classified Faulty by another
\* call, and now holds null for qualified_at and qualified_by
C6_Witness ==
    \E first \in Requests, second \in Requests :
        /\ first # second
        /\ requests[first].lead_id = requests[second].lead_id
        /\ HasWritten(first) /\ requests[first].is_qualified
        /\ HasWritten(second) /\ ~requests[second].is_qualified
        /\ requests[second].old_qualified = Some(TRUE)
        /\ requests[second].lead_id \in DOMAIN leads
        /\ leads[requests[second].lead_id].updated_at = Some(second)
        /\ leads[requests[second].lead_id].qualified_at = None
        /\ leads[requests[second].lead_id].qualified_by = None

\* C7: the update of a call puts all five qualification fields of the lead to
\* that call's values at once, whatever another call wrote before; between
\* updates the fields stay as the last update left them; a call that found its
\* lead answers 200 whatever the other call does.
C7_LastWriterWins ==
    [][/\ \A r \in Requests :
            WriteStep(r) =>
                QualificationFields(leads'[requests[r].lead_id]) =
                    [qualification_answers |-> Some(requests[r].qualification_answers),
                     qualification_score |-> Some(requests[r].total_score),
                     is_qualified |-> Some(requests[r].is_qualified),
                     qualified_at |-> Some(IF requests[r].is_qualified THEN Some(r) ELSE None),
                     qualified_by |-> Some(IF requests[r].is_qualified
                                           THEN Some(requests[r].user) ELSE None)]
       /\ \A id \in (DOMAIN leads) \cap (DOMAIN leads') :
            QualificationFields(leads'[id]) # QualificationFields(leads[id])
            => \E r \in Requests : WriteStep(r) /\ requests[r].lead_id = id
       /\ \A r \in Requests :
            requests[r].response.code # 404 => requests'[r].response.code \in {0, 200}]_vars

\* Two calls on one lead both read it before either wrote, computed different
\* scores, and both finished: the lead holds the values of one of them
C7_Witness ==
    \E a \in Requests, b \in Requests :
        /\ a # b
        /\ requests[a].lead_id = requests[b].lead_id
        /\ requests[a].pc = "done" /\ requests[a].response.code = 200
        /\ requests[b].pc = "done" /\ requests[b].response.code = 200
        /\ requests[a].old_qualified = None
        /\ requests[b].old_qualified = None
        /\ requests[a].total_score # requests[b].total_score
        /\ requests[a].is_qualified # requests[b].is_qualified
        /\ requests[a].lead_id \in DOMAIN leads
        /\ leads[requests[a].lead_id].updated_at = Some(a)
        /\ leads[requests[a].lead_id].qualification_score = requests[a].total_score

\* C8: after a call's update the lead's qualification_answers are the answers
\* that call recorded, each submitted and stamped by it, and
\* qualification_score is the sum of their scores: nothing stored by an earlier
\* call remains or counts.
C8_ReplacedWholesale ==
    [][\A r \in Requests :
        WriteStep(r)
        => LET stored == leads'[requests[r].lead_id].qualification_answers
           IN /\ \A j \in 1..Len(stored) :
                    /\ stored[j].answered_at = Some(r)
                    /\ \E i \in 1..Len(requests[r].answers_input) :
                          /\ requests[r].answers_input[i].question_id = stored[j].question_id
                          /\ requests[r].answers_input[i].option_id = stored[j].option_id
              /\ Len(stored) <= Len(requests[r].answers_input)
              /\ leads'[requests[r].lead_id].qualification_score = SumScores(stored)]_vars

\* A lead that held a positive score and answers from one call was requalified
\* by a call that submitted no answers: it holds no answers and score 0
C8_Witness ==
    \E first \in Requests, second \in Requests :
        /\ first # second
        /\ requests[first].lead_id = requests[second].lead_id
        /\ HasWritten(first)
        /\ Len(requests[first].qualification_answers) > 0
        /\ requests[second].old_score > 0
        /\ requests[second].answers_input = <<>>
        /\ requests[second].lead_id \in DOMAIN leads
        /\ leads[requests[second].lead_id].updated_at = Some(second)
        /\ leads[requests[second].lead_id].qualification_answers = <<>>
        /\ leads[requests[second].lead_id].qualification_score = 0

-----------------------------------------------------------------------------
\* Requalification under a fixed configuration: the questions and the
\* threshold are set up before the first qualify request arrives

NextRequalify ==
    \/ \E data \in QualLeadInputs : lead_seq < MaxLeads /\ CreateLead(data)
    \/ \E id \in 1..MaxLeads : DeleteLead(id)
    \/ \E data \in QuestionInputs : requests = <<>> /\ CreateQuestion(data)
    \/ \E n \in 1..MaxQuestions, body \in QuestionUpdateInputs :
            requests = <<>> /\ UpdateQuestion(<<n>>, body)
    \/ \E n \in 1..MaxQuestions : requests = <<>> /\ DeleteQuestion(<<n>>)
    \/ \E t \in ThresholdInputs, user \in Admins : requests = <<>> /\ UpdateSettings(t, user)
    \/ \E id \in 1..MaxLeads, answers \in AnswerInputs, user \in Users :
            QualifyFindLead(id, answers, user)
    \/ \E r \in 1..Len(requests) : QualifyScore(r)
    \/ \E r \in 1..Len(requests) : QualifyClassify(r)
    \/ \E r \in 1..Len(requests) : QualifyUpdateLead(r)
    \/ \E r \in 1..Len(requests) : QualifyLogActivity(r)

SpecRequalify == InitStore /\ [][NextRequalify]_vars

-----------------------------------------------------------------------------
\* Metric configuration (backend/models/metric_settings.py,
\* backend/routes/metric_settings.py).  field_values is written as the set of
\* the list's members: only membership and emptiness are read.  The display
\* keys (metric_name, description, color, icon, unit) are left out.
\* numerator_metric and denominator_metric are strings written as the sequence
\* of their pieces: a metric name, "+" or " " (a run of blanks).

DEFAULT_METRICS ==
    << [metric_id |-> "won_leads", field_name |-> Some("enquiry_stage"),
        field_values |-> {"Closed-Won", "Order Booked"}, is_active |-> TRUE,
        is_custom |-> FALSE, show_on_dashboard |-> TRUE, dashboard_order |-> 1,
        metric_type |-> "count"],
       [metric_id |-> "lost_leads", field_name |-> Some("enquiry_stage"),
        field_values |-> {"Closed-Lost", "Closed-Dropped"}, is_active |-> TRUE,
        is_custom |-> FALSE, show_on_dashboard |-> TRUE, dashboard_order |-> 2,
        metric_type |-> "count"],
       [metric_id |-> "open_leads", field_name |-> Some("enquiry_stage"),
        field_values |-> {"Prospecting", "Qualified"}, is_active |-> TRUE,
        is_custom |-> FALSE, show_on_dashboard |-> TRUE, dashboard_order |-> 3,
        metric_type |-> "count"],
       [metric_id |-> "closed_leads", field_name |-> Some("enquiry_status"),
        field_values |-> {"Closed", "Order Received"}, is_active |-> TRUE,
        is_custom |-> FALSE, show_on_dashboard |-> TRUE, dashboard_order |-> 4,
        metric_type |-> "count"],
       [metric_id |-> "hot_leads", field_name |-> Some("enquiry_type"),
        field_values |-> {"Hot"}, is_active |-> TRUE,
        is_custom |-> FALSE, show_on_dashboard |-> TRUE, dashboard_order |-> 5,
        metric_type |-> "count"],
       [metric_id |-> "warm_leads", field_name |-> Some("enquiry_type"),
        field_values |-> {"Warm"}, is_active |-> TRUE,
        is_custom |-> FALSE, show_on_dashboard |-> TRUE, dashboard_order |-> 6,
        metric_type |-> "count"],
       [metric_id |-> "cold_leads", field_name |-> Some("enquiry_type"),
        field_values |-> {"Cold"}, is_active |-> TRUE,
        is_custom |-> FALSE, show_on_dashboard |-> TRUE, dashboard_order |-> 7,
        metric_type |-> "count"],
       [metric_id |-> "avg_lead_age", field_name |-> None,
        field_values |-> {}, is_active |-> TRUE,
        is_custom |-> FALSE, show_on_dashboard |-> TRUE, dashboard_order |-> 8,
        metric_type |-> "calculated", start_date_field |-> "enquiry_date",
        end_date_field |-> "today", filter_stages |-> {"Prospecting", "Qualified"}],
       [metric_id |-> "avg_closure_time", field_name |-> None,
        field_values |-> {}, is_active |-> TRUE,
        is_custom |-> FALSE, show_on_dashboard |-> TRUE, dashboard_order |-> 9,
        metric_type |-> "calculated", start_date_field |-> "enquiry_date",
        end_date_field |-> "last_followup_date",
        filter_stages |-> {"Closed-Won", "Order Booked", "Closed-Lost", "Closed-Dropped"}],
       [metric_id |-> "conversion_rate", field_name |-> None,
        field_values |-> {}, is_active |-> TRUE,
        is_custom |-> FALSE, show_on_dashboard |-> TRUE, dashboard_order |-> 10,
        metric_type |-> "formula", numerator_metric |-> <<"won_leads">>,
        denominator_metric |-> <<"won_leads", "+", "lost_leads">>] >>

\* CustomMetricCreate bodies
CustomMetricInputs ==
    { [metric_id |-> "won_leads", field_name |-> "enquiry_stage",
       field_values |-> {"Closed-Won"}, show_on_dashboard |-> TRUE, dashboard_order |-> 99],
      [metric_id |-> "bihar_leads", field_name |-> "state",
       field_values |-> {"Bihar"}, show_on_dashboard |-> TRUE, dashboard_order |-> 99],
      [metric_id |-> "unnamed_field", field_name |-> "",
       field_values |-> {"Closed-Won"}, show_on_dashboard |-> TRUE, dashboard_order |-> 5] }

\* MetricUpdate bodies: the fields that are not None
MetricUpdateInputs ==
    { [is_active |-> FALSE], [field_values |-> {}] }

\* find_one({"metric_id": metric_id}): the first such document, None without one
FindMetric(metric_id) ==
    LET hits == { i \in 1..Len(metric_settings) : metric_settings[i].metric_id = metric_id }
    IN IF hits = {} THEN None
       ELSE Some(metric_settings[CHOOSE i \in hits : \A j \in hits : i <= j])

\* find_one(sort=[("dashboard_order", -1)]).get("dashboard_order", 0), 0 on an
\* empty collection
MaxOrder ==
    IF metric_settings = <<>> THEN 0
    ELSE LET orders == { Get(metric_settings[i], "dashboard_order", 0) :
                            i \in 1..Len(metric_settings) }
         IN CHOOSE o \in orders : \A other \in orders : other <= o

\* The new_metric document of create_custom_metric
NewMetric(body, max_order) ==
    [metric_id |-> body.metric_id,
     field_name |-> Some(body.field_name),
     field_values |-> body.field_values,
     is_active |-> TRUE,
     is_custom |-> TRUE,
     show_on_dashboard |-> body.show_on_dashboard,
     dashboard_order |-> IF body.dashboard_order # 99 THEN body.dashboard_order
                         ELSE max_order + 1]

\* create_custom_metric, lines 188-192: 400 when the metric_id is already stored
CreateMetricFindExisting(body) ==
    /\ Len(metric_requests) < MaxMetricRequests
    /\ metric_requests' =
            Append(metric_requests,
                   [kind |-> "create",
                    metric_id |-> body.metric_id,
                    body |-> body,
                    max_order |-> 0,
                    pc |-> IF FindMetric(body.metric_id) # None THEN "done"
                           ELSE "find_max_order",
                    response |-> IF FindMetric(body.metric_id) # None THEN [code |-> 400]
                                 ELSE NoResponse])
    /\ UNCHANGED <<leads, lead_seq, qualVars, metric_settings, kpi, otherVars>>

\* create_custom_metric, lines 194-196
CreateMetricFindMaxOrder(m) ==
    /\ metric_requests[m].kind = "create"
    /\ metric_requests[m].pc = "find_max_order"
    /\ metric_requests' = [metric_requests EXCEPT ![m].max_order = MaxOrder,
                                                  ![m].pc = "insert"]
    /\ UNCHANGED <<leads, lead_seq, qualVars, metric_settings, kpi, otherVars>>

\* create_custom_metric, lines 198-214
CreateMetricInsert(m) ==
    /\ metric_requests[m].kind = "create"
    /\ metric_requests[m].pc = "insert"
    /\ metric_settings' =
            Append(metric_settings,
                   NewMetric(metric_requests[m].body, metric_requests[m].max_order))
    /\ metric_requests' = [metric_requests EXCEPT ![m].pc = "done",
                                                  ![m].response = [code |-> 200]]
    /\ UNCHANGED <<leads, lead_seq, qualVars, kpi, otherVars>>

\* update_metric_setting, lines 114-118: 404 when the metric_id is not stored
UpdateMetricFindExisting(metric_id, body) ==
    /\ Len(metric_requests) < MaxMetricRequests
    /\ metric_requests' =
            Append(metric_requests,
                   [kind |-> "update",
                    metric_id |-> metric_id,
                    body |-> body,
                    max_order |-> 0,
                    pc |-> IF FindMetric(metric_id) = None THEN "done" ELSE "update",
                    response |-> IF FindMetric(metric_id) = None THEN NotFound
                                 ELSE NoResponse])
    /\ UNCHANGED <<leads, lead_seq, qualVars, metric_settings, kpi, otherVars>>

\* The fields of MetricUpdate: pydantic drops every other key of the body
MetricUpdateFields ==
    {"metric_name", "description", "field_values", "is_active", "color", "icon",
     "show_on_dashboard", "dashboard_order", "metric_type", "numerator_metric",
     "denominator_metric", "unit"}

\* update_data, lines 120-146: the MetricUpdate fields of the body that are not
\* None
UpdateData(body) == [k \in (DOMAIN body) \cap MetricUpdateFields |-> body[k]]

\* update_metric_setting, lines 120-151: update_one changes the first document
\* with the metric_id
UpdateMetricUpdate(m) ==
    /\ metric_requests[m].kind = "update"
    /\ metric_requests[m].pc = "update"
    /\ LET hits == { i \in 1..Len(metric_settings) :
                        metric_settings[i].metric_id = metric_requests[m].metric_id }
       IN metric_settings' =
            [i \in 1..Len(metric_settings) |->
                IF i \in hits /\ \A j \in hits : i <= j
                THEN SetFields(metric_settings[i], UpdateData(metric_requests[m].body))
                ELSE metric_settings[i]]
    /\ metric_requests' = [metric_requests EXCEPT ![m].pc = "find_updated"]
    /\ UNCHANGED <<leads, lead_seq, qualVars, kpi, otherVars>>

\* update_metric_setting, lines 153-154: the document is read back and returned
UpdateMetricReturn(m) ==
    /\ metric_requests[m].kind = "update"
    /\ metric_requests[m].pc = "find_updated"
    /\ metric_requests' =
            [metric_requests EXCEPT
                ![m].pc = "done",
                ![m].response = [code |-> 200,
                                 metric |-> FindMetric(metric_requests[m].metric_id)]]
    /\ UNCHANGED <<leads, lead_seq, qualVars, metric_settings, kpi, otherVars>>

-----------------------------------------------------------------------------
\* Counting leads by a metric (backend/routes/kpis.py).  A query is a function
\* from field names to conditions.

EqCond(value) == [op |-> "$eq", value |-> value]

InCond(values) == [op |-> "$in", values |-> values]

RangeCond(gte, lte) == [op |-> "$gte$lte", gte |-> gte, lte |-> lte]

\* Whether the document's value of the field satisfies the condition: a missing
\* or null value satisfies none of the three
Holds(doc, field, cond) ==
    LET v == Get(doc, field, None)
    IN /\ v # None
       /\ CASE cond.op = "$eq" -> v[1] = cond.value
            [] cond.op = "$in" -> v[1] \in cond.values
            [] cond.op = "$gte$lte" -> cond.gte <= v[1] /\ v[1] <= cond.lte

Matches(doc, query) == \A field \in DOMAIN query : Holds(doc, field, query[field])

\* count_documents(query)
CountDocuments(query) == Cardinality({ id \in DOMAIN leads : Matches(leads[id], query) })

\* get_indian_fy_dates(): the financial year of the day the request is served
IndianFYDates == [start_date |-> 1, end_date |-> 2]

\* Query parameters of GET /kpis
KpiParams ==
    { [state |-> st, dealer |-> None, employee_name |-> None, segment |-> None,
       start_date |-> d[1], end_date |-> d[2]] :
        st \in {None, Some("Delhi")},
        d \in { <<None, None>>, <<Some(1), Some(3)>> } }

\* Python truthiness of an optional string
Truthy(opt) == opt # None /\ opt # Some("")

\* get_kpis, lines 72-87: the base query of the request.  Dates are day
\* numbers, so a given date is never the empty string
BaseQuery(params) ==
    LET dates == IF params.start_date = None \/ params.end_date = None
                 THEN IndianFYDates
                 ELSE [start_date |-> params.start_date[1], end_date |-> params.end_date[1]]
        filters == { f \in {"state", "dealer", "employee_name", "segment"} :
                        Truthy(params[f]) }
    IN [f \in filters \cup {"enquiry_date"} |->
            IF f = "enquiry_date" THEN RangeCond(dates.start_date, dates.end_date)
            ELSE EqCond(params[f][1])]

\* get_metric_config: the stored document, else the default, else None
RECURSIVE FindDefault(_, _)
FindDefault(defaults, metric_id) ==
    IF defaults = <<>> THEN None
    ELSE IF Head(defaults).metric_id = metric_id THEN Some(Head(defaults))
         ELSE FindDefault(Tail(defaults), metric_id)

\* Variant: the stored document is not consulted
get_default_metric_config(metric_id) == FindDefault(DEFAULT_METRICS, metric_id)

get_metric_config(metric_id) ==
    IF FindMetric(metric_id) = None
    THEN FindDefault(DEFAULT_METRICS, metric_id)
    ELSE FindMetric(metric_id)

\* Variant: the is_active flag is not consulted
count_by_metric_any(base_query, metric_config) ==
    IF metric_config = None
    THEN 0
    ELSE LET field_name == Get(metric_config[1], "field_name", None)
             field_values == Get(metric_config[1], "field_values", {})
         IN IF ~Truthy(field_name) \/ field_values = {}
            THEN 0
            ELSE CountDocuments(SetFields(base_query, field_name[1] :> InCond(field_values)))

\* count_by_metric: query = {**base_query, field_name: {"$in": field_values}}
count_by_metric(base_query, metric_config) ==
    IF metric_config = None \/ ~Get(metric_config[1], "is_active", TRUE)
    THEN 0
    ELSE LET field_name == Get(metric_config[1], "field_name", None)
             field_values == Get(metric_config[1], "field_values", {})
         IN IF ~Truthy(field_name) \/ field_values = {}
            THEN 0
            ELSE CountDocuments(SetFields(base_query, field_name[1] :> InCond(field_values)))

\* The seven metrics get_kpis counts by name (lines 93-108)
NamedCountMetrics ==
    {"won_leads", "lost_leads", "open_leads", "closed_leads",
     "hot_leads", "warm_leads", "cold_leads"}

\* The named metrics followed through get_kpis
KpiMetricInputs == {"won_leads", "closed_leads"}

\* The ids of calculated_values (lines 236-249)
CalculatedValueIds ==
    NamedCountMetrics \cup {"total_leads", "qualified_leads", "avg_lead_age",
                            "avg_closure_time", "conversion_rate"}

\* The metrics of the dashboard loop that reach its count branch (lines 230-270)
DashboardCountMetrics ==
    { i \in 1..Len(metric_settings) :
        LET metric == metric_settings[i]
            metric_type == Get(metric, "metric_type", "count")
        IN /\ "is_active" \in DOMAIN metric /\ metric.is_active
           /\ "show_on_dashboard" \in DOMAIN metric /\ metric.show_on_dashboard
           /\ ~(metric_type = "calculated" /\ metric.metric_id \in CalculatedValueIds)
           /\ metric_type # "formula" }

\* No GET /kpis request is between its awaits
KpiIdle == IF kpi = None THEN TRUE ELSE kpi[1].pc = "done"

\* get_kpis, lines 70-99: the base query is built and the configuration of a
\* named metric fetched, to be counted
KpiGetMetricConfig(params, metric_id) ==
    /\ KpiIdle
    /\ kpi' = Some([base_query |-> BaseQuery(params),
                    metric_config |-> get_metric_config(metric_id),
                    pc |-> "count",
                    value |-> 0])
    /\ UNCHANGED <<leads, lead_seq, qualVars, metric_settings, metric_requests, otherVars>>

\* get_kpis, lines 230-233 and 253-270: a stored metric shown on the dashboard
\* reaches the count branch of the loop
KpiDashboardMetric(params, i) ==
    /\ KpiIdle
    /\ i \in DashboardCountMetrics
    /\ kpi' = Some([base_query |-> BaseQuery(params),
                    metric_config |-> Some(metric_settings[i]),
                    pc |-> "count",
                    value |-> 0])
    /\ UNCHANGED <<leads, lead_seq, qualVars, metric_settings, metric_requests, otherVars>>

\* The count_documents of count_by_metric
KpiCountByMetric ==
    /\ kpi # None
    /\ kpi[1].pc = "count"
    /\ kpi' = Some([kpi[1] EXCEPT !.pc = "done",
                                  !.value = count_by_metric(kpi[1].base_query,
                                                            kpi[1].metric_config)])
    /\ UNCHANGED <<leads, lead_seq, qualVars, metric_settings, metric_requests, otherVars>>

NextCount ==
    \/ \E data \in LeadInputs : lead_seq < MaxKpiLeads /\ CreateLead(data)
    \/ \E id \in 1..MaxKpiLeads : DeleteLead(id)
    \/ \E body \in CustomMetricInputs : CreateMetricFindExisting(body)
    \/ \E m \in 1..Len(metric_requests) : CreateMetricFindMaxOrder(m)
    \/ \E m \in 1..Len(metric_requests) : CreateMetricInsert(m)
    \/ \E body \in CustomMetricInputs, upd \in MetricUpdateInputs :
            UpdateMetricFindExisting(body.metric_id, upd)
    \/ \E m \in 1..Len(metric_requests) : UpdateMetricUpdate(m)
    \/ \E m \in 1..Len(metric_requests) : UpdateMetricReturn(m)
    \/ \E params \in KpiParams, metric_id \in KpiMetricInputs :
            KpiGetMetricConfig(params, metric_id)
    \/ \E params \in KpiParams, i \in 1..Len(metric_settings) : KpiDashboardMetric(params, i)
    \/ KpiCountByMetric

SpecCount == InitStore /\ [][NextCount]_vars

-----------------------------------------------------------------------------
\* Properties of count_by_metric

\* The leads that satisfy the base query and whose value of the field is one of
\* the values
LeadsCounted(base_query, field, values) ==
    { id \in DOMAIN leads :
        /\ Matches(leads[id], base_query)
        /\ Get(leads[id], field, None) # None
        /\ Get(leads[id], field, None)[1] \in values }

\* C9: a count for a metric whose configuration has is_active = false is 0,
\* whatever the leads and the base query.
C9_InactiveMetricCountsZero ==
    (/\ kpi # None
     /\ kpi[1].pc = "done"
     /\ kpi[1].metric_config # None
     /\ "is_active" \in DOMAIN kpi[1].metric_config[1]
     /\ kpi[1].metric_config[1].is_active = FALSE)
    => kpi[1].value = 0

\* An inactive metric was counted as 0 while a lead matches its field values
\* and the base query
C9_Witness ==
    /\ kpi # None
    /\ kpi[1].pc = "done"
    /\ kpi[1].metric_config # None
    /\ kpi[1].metric_config[1].is_active = FALSE
    /\ kpi[1].metric_config[1].field_values # {}
    /\ Truthy(kpi[1].metric_config[1].field_name)
    /\ LeadsCounted(kpi[1].base_query, kpi[1].metric_config[1].field_name[1],
                    kpi[1].metric_config[1].field_values) # {}
    /\ kpi[1].value = 0

\* C10: the count for an active metric is the number of leads that satisfy the
\* base query and whose field_name value is one of field_values, and 0 when
\* field_name is unset or field_values is empty.
C10_CountWithinBaseFilter ==
    [][(/\ kpi # None
        /\ kpi[1].pc = "count"
        /\ kpi' # None
        /\ kpi'[1].pc = "done"
        /\ kpi[1].metric_config # None
        /\ Get(kpi[1].metric_config[1], "is_active", TRUE))
       => LET config == kpi[1].metric_config[1]
          IN kpi'[1].value =
                IF ~Truthy(Get(config, "field_name", None))
                   \/ Get(config, "field_values", {}) = {}
                THEN 0
                ELSE Cardinality(LeadsCounted(kpi[1].base_query, config.field_name[1],
                                              config.field_values))]_vars

-----------------------------------------------------------------------------
\* Formula values (backend/routes/kpis.py).  A value that may carry decimals is
\* an integer number of hundredths: a count c is 100 * c.

Hundredths(count) == count * 100

\* round(n / d, 0) for d > 0: the nearest integer, the even one on a tie
RoundDiv(n, d) ==
    LET q == n \div d
        r == n % d
    IN IF 2 * r < d THEN q
       ELSE IF 2 * r > d THEN q + 1
       ELSE IF q % 2 = 0 THEN q ELSE q + 1

\* str.split("+")
RECURSIVE SplitPlus(_)
SplitPlus(str) ==
    LET plus == { i \in 1..Len(str) : str[i] = "+" }
    IN IF plus = {} THEN << str >>
       ELSE LET i == CHOOSE i \in plus : \A j \in plus : i <= j
            IN << SubSeq(str, 1, i - 1) >> \o SplitPlus(SubSeq(str, i + 1, Len(str)))

\* str.strip()
RECURSIVE Strip(_)
Strip(str) ==
    IF str = <<>> THEN str
    ELSE IF Head(str) = " " THEN Strip(Tail(str))
    ELSE IF str[Len(str)] = " " THEN Strip(SubSeq(str, 1, Len(str) - 1))
    ELSE str

\* values.get(m.strip(), 0): a name is a single piece
TermValue(values, m) ==
    IF Len(Strip(m)) = 1 /\ Strip(m)[1] \in DOMAIN values THEN values[Strip(m)[1]] ELSE 0

\* sum(values.get(m.strip(), 0) for m in terms)
RECURSIVE SumTerms(_, _)
SumTerms(values, terms) ==
    IF terms = <<>> THEN 0
    ELSE TermValue(values, Head(terms)) + SumTerms(values, Tail(terms))

\* Variant: a denominator that is not positive gives 100 per cent
RatioElseFull(numerator, denominator) ==
    IF denominator > 0 THEN RoundDiv(numerator * 10000, denominator) ELSE Hundredths(100)

\* round((numerator / denominator * 100), 2) if denominator > 0 else 0
Ratio(numerator, denominator) ==
    IF denominator > 0 THEN RoundDiv(numerator * 10000, denominator) ELSE 0

\* Variant: the percentage is cut to a whole number
FormulaValueWhole(values, numerator_metric, denominator_metric) ==
    LET numerator == SumTerms(values, SplitPlus(numerator_metric))
        denominator == SumTerms(values, SplitPlus(denominator_metric))
    IN IF denominator > 0 THEN 100 * ((numerator * 100) \div denominator) ELSE 0

\* The value of a formula over a table of values; a term that is empty after
\* strip() is skipped by the dashboard loop and counts 0 in lines 138-139
FormulaValue(values, numerator_metric, denominator_metric) ==
    Ratio(SumTerms(values, SplitPlus(numerator_metric)),
          SumTerms(values, SplitPlus(denominator_metric)))

\* get_kpis, lines 122-144: the conversion rate from the conversion_rate
\* configuration, as round(conversion_rate, 2)
ConversionRate(conversion_config, metric_values) ==
    IF /\ conversion_config # None
       /\ Get(conversion_config[1], "numerator_metric", <<>>) # <<>>
       /\ Get(conversion_config[1], "denominator_metric", <<>>) # <<>>
    THEN FormulaValue(metric_values, conversion_config[1].numerator_metric,
                      conversion_config[1].denominator_metric)
    ELSE Ratio(metric_values["won_leads"],
               metric_values["won_leads"] + metric_values["lost_leads"])

-----------------------------------------------------------------------------
\* The averages of get_kpis (aggregation pipelines, lines 146-198).  A date
\* string is written as a number that keeps the order of the strings; the
\* strings of UnparsableDates are not dates, any other is the day of its number.

\* datetime.now() of the request, as the day number of today_str: the last day
\* of the financial year
Today == IndianFYDates.end_date

\* Date strings, in the range of the codes, that $dateFromString cannot parse
UnparsableDates == {4}

\* The empty string among the date strings
EmptyDate == 0

\* $dateFromString without onError: None stands for the error it raises
ParseDate(str) == IF str \in UnparsableDates THEN None ELSE Some(str)

RECURSIVE SumOver(_, _)
SumOver(f, ids) ==
    IF ids = {} THEN 0
    ELSE LET id == CHOOSE id \in ids : TRUE
         IN f[id] + SumOver(f, ids \ {id})

\* round(avg, 1) of the $avg of the deltas, 0 when there is no delta or the
\* average is 0 (a falsy avg)
RoundedAverage(delta, ids) ==
    IF ids = {} \/ SumOver(delta, ids) = 0 THEN 0
    ELSE 10 * RoundDiv(SumOver(delta, ids) * 10, Cardinality(ids))

DefaultOpenStages == {"Prospecting", "Qualified"}

DefaultClosedStages == {"Closed-Won", "Order Booked", "Closed-Lost", "Closed-Dropped"}

\* Lines 147-166: [ok |-> FALSE] when the aggregation raises
LeadAge(base_query, open_config) ==
    LET open_stages == IF open_config # None
                       THEN Get(open_config[1], "field_values", DefaultOpenStages)
                       ELSE DefaultOpenStages
        matched == { id \in DOMAIN leads :
                        Matches(leads[id],
                                SetFields(base_query, "enquiry_stage" :> InCond(open_stages))) }
        lead_age_days == [id \in matched |-> Today - leads[id].enquiry_date[1]]
    IN IF \E id \in matched : ParseDate(leads[id].enquiry_date[1]) = None
       THEN [ok |-> FALSE, value |-> 0]
       ELSE [ok |-> TRUE, value |-> RoundedAverage(lead_age_days, matched)]

\* Lines 169-198.  The match on last_followup_date is {"$exists": True, "$ne": ""}:
\* the dict literal names "$ne" twice and keeps the last.  A null
\* last_followup_date gives a null closure_days, which "$gte 0" drops; one that
\* does not parse is replaced by the enquiry_date (onError)
ClosureTime(base_query, won_config, lost_config) ==
    LET configured == (IF won_config # None THEN Get(won_config[1], "field_values", {}) ELSE {})
                      \cup
                      (IF lost_config # None THEN Get(lost_config[1], "field_values", {}) ELSE {})
        closed_stages == IF configured = {} THEN DefaultClosedStages ELSE configured
        matched == { id \in DOMAIN leads :
                        /\ Matches(leads[id],
                                   SetFields(base_query,
                                             "enquiry_stage" :> InCond(closed_stages)))
                        /\ "last_followup_date" \in DOMAIN leads[id]
                        /\ leads[id].last_followup_date # Some(EmptyDate) }
        dated == { id \in matched : leads[id].last_followup_date # None }
        end_day == [id \in dated |->
                        IF ParseDate(leads[id].last_followup_date[1]) = None
                        THEN leads[id].enquiry_date[1]
                        ELSE leads[id].last_followup_date[1]]
        closure_days == [id \in dated |-> end_day[id] - leads[id].enquiry_date[1]]
        kept == { id \in dated : closure_days[id] >= 0 }
    IN IF \E id \in matched : ParseDate(leads[id].enquiry_date[1]) = None
       THEN [ok |-> FALSE, value |-> 0]
       ELSE [ok |-> TRUE, value |-> RoundedAverage(closure_days, kept)]

-----------------------------------------------------------------------------
\* get_kpis as a whole (backend/routes/kpis.py, lines 58-323): one action per
\* access to the store, with the local code that follows it

\* The order in which the named configurations are fetched and counted
NamedMetricOrder ==
    << "won_leads", "lost_leads", "open_leads", "closed_leads",
       "hot_leads", "warm_leads", "cold_leads" >>

\* Line 112
CountQualified(base_query) ==
    Cardinality({ id \in DOMAIN leads :
                    /\ Matches(leads[id], base_query)
                    /\ "is_qualified" \in DOMAIN leads[id]
                    /\ leads[id].is_qualified = TRUE })

\* Line 116
CountFaulty(base_query) ==
    Cardinality({ id \in DOMAIN leads :
                    /\ Matches(leads[id], base_query)
                    /\ "is_qualified" \in DOMAIN leads[id]
                    /\ leads[id].is_qualified = FALSE
                    /\ "qualification_score" \in DOMAIN leads[id] })

\* {"$group": {"_id": "$field", "count": {"$sum": 1}}} after {"$match": base_query}
GroupCount(base_query, field) ==
    LET matched == { id \in DOMAIN leads : Matches(leads[id], base_query) }
    IN [v \in { Get(leads[id], field, None) : id \in matched } |->
            Cardinality({ id \in matched : Get(leads[id], field, None) = v })]

\* sort("dashboard_order", 1), documents of equal order in insertion order
RECURSIVE SortByOrder(_)
SortByOrder(docs) ==
    IF docs = <<>> THEN <<>>
    ELSE LET least == CHOOSE i \in 1..Len(docs) :
                        \A j \in 1..Len(docs) :
                            \/ docs[i].dashboard_order < docs[j].dashboard_order
                            \/ docs[i].dashboard_order = docs[j].dashboard_order /\ i <= j
         IN << docs[least] >>
            \o SortByOrder([k \in 1..(Len(docs) - 1) |->
                                IF k < least THEN docs[k] ELSE docs[k + 1]])

\* to_list(50) of the dashboard query
DashboardListLimit == 50

\* Lines 230-233
DashboardMetrics ==
    ToList(SortByOrder(SelectSeq(metric_settings,
                                 LAMBDA m : /\ "is_active" \in DOMAIN m /\ m.is_active
                                            /\ "show_on_dashboard" \in DOMAIN m
                                            /\ m.show_on_dashboard)),
           DashboardListLimit)

\* metric_values of lines 127-136
MetricValues(r) ==
    [name \in {"won_leads", "lost_leads", "open_leads", "closed_leads",
               "hot_leads", "warm_leads", "cold_leads", "total_leads"} |->
        IF name = "total_leads" THEN Hundredths(r.total_leads)
        ELSE Hundredths(r.counts[name])]

\* calculated_values of lines 236-249
CalculatedValues(r) ==
    [name \in CalculatedValueIds |->
        CASE name = "total_leads" -> Hundredths(r.total_leads)
          [] name = "qualified_leads" -> Hundredths(r.qualified_leads)
          [] name = "avg_lead_age" -> r.avg_lead_age
          [] name = "avg_closure_time" -> r.avg_closure_time
          [] name = "conversion_rate" -> r.conversion_rate
          [] OTHER -> Hundredths(r.counts[name])]

\* Lines 254-270: the value of one metric of the dashboard loop
DashboardValue(r, metric) ==
    LET metric_type == Get(metric, "metric_type", "count")
    IN IF metric_type = "calculated" /\ metric.metric_id \in CalculatedValueIds
       THEN CalculatedValues(r)[metric.metric_id]
       ELSE IF metric_type = "formula"
       THEN FormulaValue(CalculatedValues(r),
                         Get(metric, "numerator_metric", <<>>),
                         Get(metric, "denominator_metric", <<>>))
       ELSE Hundredths(count_by_metric(r.base_query, Some(metric)))

KpiRequestIdle == IF kpi_request = None THEN TRUE ELSE kpi_request[1].pc = "done"

\* Lines 70-89: the base query and total_leads
KpiCountTotal(params) ==
    /\ KpiRequestIdle
    /\ kpi_request' =
            Some([pc |-> "get_config", i |-> 1,
                  base_query |-> BaseQuery(params),
                  total_leads |-> CountDocuments(BaseQuery(params)),
                  configs |-> <<>>, counts |-> <<>>,
                  qualified_leads |-> 0, faulty_leads |-> 0,
                  conversion_config |-> None, conversion_rate |-> 0,
                  avg_lead_age |-> 0, avg_closure_time |-> 0,
                  segment_distribution |-> <<>>, stage_distribution |-> <<>>,
                  all_metrics |-> <<>>, dashboard_metrics |-> <<>>,
                  response |-> NoResponse])
    /\ UNCHANGED <<leads, lead_seq, qualVars, metricVars, lead_requests, question_requests, auth_calls, followVars>>

\* Lines 93-99: one get_metric_config
KpiGetConfig ==
    /\ kpi_request # None
    /\ kpi_request[1].pc = "get_config"
    /\ LET r == kpi_request[1]
           name == NamedMetricOrder[r.i]
       IN kpi_request' =
            Some([r EXCEPT !.configs = name :> get_metric_config(name) @@ r.configs,
                           !.i = IF r.i < Len(NamedMetricOrder) THEN r.i + 1 ELSE 1,
                           !.pc = IF r.i < Len(NamedMetricOrder) THEN "get_config"
                                  ELSE "count"])
    /\ UNCHANGED <<leads, lead_seq, qualVars, metricVars, lead_requests, question_requests, auth_calls, followVars>>

\* Lines 102-108: one count_by_metric
KpiCount ==
    /\ kpi_request # None
    /\ kpi_request[1].pc = "count"
    /\ LET r == kpi_request[1]
           name == NamedMetricOrder[r.i]
       IN kpi_request' =
            Some([r EXCEPT !.counts = name :> count_by_metric(r.base_query, r.configs[name])
                                      @@ r.counts,
                           !.i = IF r.i < Len(NamedMetricOrder) THEN r.i + 1 ELSE 1,
                           !.pc = IF r.i < Len(NamedMetricOrder) THEN "count"
                                  ELSE "count_qualified"])
    /\ UNCHANGED <<leads, lead_seq, qualVars, metricVars, lead_requests, question_requests, auth_calls, followVars>>

\* Lines 111-112
KpiCountQualified ==
    /\ kpi_request # None
    /\ kpi_request[1].pc = "count_qualified"
    /\ kpi_request' =
            Some([kpi_request[1] EXCEPT
                    !.qualified_leads = CountQualified(kpi_request[1].base_query),
                    !.pc = "count_faulty"])
    /\ UNCHANGED <<leads, lead_seq, qualVars, metricVars, lead_requests, question_requests, auth_calls, followVars>>

\* Lines 115-116
KpiCountFaulty ==
    /\ kpi_request # None
    /\ kpi_request[1].pc = "count_faulty"
    /\ kpi_request' =
            Some([kpi_request[1] EXCEPT
                    !.faulty_leads = CountFaulty(kpi_request[1].base_query),
                    !.pc = "get_conversion_config"])
    /\ UNCHANGED <<leads, lead_seq, qualVars, metricVars, lead_requests, question_requests, auth_calls, followVars>>

\* Lines 119-144: the conversion_rate configuration and the conversion rate
KpiGetConversionConfig ==
    /\ kpi_request # None
    /\ kpi_request[1].pc = "get_conversion_config"
    /\ LET r == kpi_request[1]
           conversion_config == get_metric_config("conversion_rate")
       IN kpi_request' =
            Some([r EXCEPT !.conversion_config = conversion_config,
                           !.conversion_rate = ConversionRate(conversion_config,
                                                              MetricValues(r)),
                           !.pc = "avg_lead_age"])
    /\ UNCHANGED <<leads, lead_seq, qualVars, metricVars, lead_requests, question_requests, auth_calls, followVars>>

\* Lines 147-166: an aggregation that raises ends the request with a 500
KpiAvgLeadAge ==
    /\ kpi_request # None
    /\ kpi_request[1].pc = "avg_lead_age"
    /\ LET r == kpi_request[1]
           result == LeadAge(r.base_query, r.configs["open_leads"])
       IN kpi_request' =
            IF result.ok
            THEN Some([r EXCEPT !.avg_lead_age = result.value, !.pc = "avg_closure"])
            ELSE Some([r EXCEPT !.pc = "done", !.response = [code |-> 500]])
    /\ UNCHANGED <<leads, lead_seq, qualVars, metricVars, lead_requests, question_requests, auth_calls, followVars>>

\* Lines 169-198
KpiAvgClosure ==
    /\ kpi_request # None
    /\ kpi_request[1].pc = "avg_closure"
    /\ LET r == kpi_request[1]
           result == ClosureTime(r.base_query, r.configs["won_leads"],
                                 r.configs["lost_leads"])
       IN kpi_request' =
            IF result.ok
            THEN Some([r EXCEPT !.avg_closure_time = result.value, !.pc = "segments"])
            ELSE Some([r EXCEPT !.pc = "done", !.response = [code |-> 500]])
    /\ UNCHANGED <<leads, lead_seq, qualVars, metricVars, lead_requests, question_requests, auth_calls, followVars>>

\* Lines 201-206
KpiSegments ==
    /\ kpi_request # None
    /\ kpi_request[1].pc = "segments"
    /\ kpi_request' =
            Some([kpi_request[1] EXCEPT
                    !.segment_distribution = GroupCount(kpi_request[1].base_query, "segment"),
                    !.pc = "stages"])
    /\ UNCHANGED <<leads, lead_seq, qualVars, metricVars, lead_requests, question_requests, auth_calls, followVars>>

\* Lines 209-213
KpiStages ==
    /\ kpi_request # None
    /\ kpi_request[1].pc = "stages"
    /\ kpi_request' =
            Some([kpi_request[1] EXCEPT
                    !.stage_distribution = GroupCount(kpi_request[1].base_query,
                                                      "enquiry_stage"),
                    !.pc = "find_metrics"])
    /\ UNCHANGED <<leads, lead_seq, qualVars, metricVars, lead_requests, question_requests, auth_calls, followVars>>

\* Lines 230-233
KpiFindMetrics ==
    /\ kpi_request # None
    /\ kpi_request[1].pc = "find_metrics"
    /\ kpi_request' =
            Some([kpi_request[1] EXCEPT !.all_metrics = DashboardMetrics,
                                        !.i = 1,
                                        !.pc = "dashboard"])
    /\ UNCHANGED <<leads, lead_seq, qualVars, metricVars, lead_requests, question_requests, auth_calls, followVars>>

\* Lines 253-285: one turn of the dashboard loop (a turn that counts reads the
\* leads, the other turns read the locals only)
KpiDashboardTurn ==
    /\ kpi_request # None
    /\ kpi_request[1].pc = "dashboard"
    /\ kpi_request[1].i <= Len(kpi_request[1].all_metrics)
    /\ LET r == kpi_request[1]
           metric == r.all_metrics[r.i]
       IN kpi_request' =
            Some([r EXCEPT !.dashboard_metrics =
                                Append(r.dashboard_metrics,
                                       [metric_id |-> metric.metric_id,
                                        value |-> DashboardValue(r, metric),
                                        metric_type |-> Get(metric, "metric_type", "count"),
                                        numerator_metric |->
                                            GetOptional(metric, "numerator_metric"),
                                        denominator_metric |->
                                            GetOptional(metric, "denominator_metric")]),
                           !.i = r.i + 1])
    /\ UNCHANGED <<leads, lead_seq, qualVars, metricVars, lead_requests, question_requests, auth_calls, followVars>>

\* Lines 287-323
KpiReturn ==
    /\ kpi_request # None
    /\ kpi_request[1].pc = "dashboard"
    /\ kpi_request[1].i > Len(kpi_request[1].all_metrics)
    /\ LET r == kpi_request[1]
       IN kpi_request' =
            Some([r EXCEPT
                    !.pc = "done",
                    !.response =
                        [code |-> 200,
                         total_leads |-> r.total_leads,
                         counts |-> r.counts,
                         qualified_leads |-> r.qualified_leads,
                         faulty_leads |-> r.faulty_leads,
                         not_evaluated |-> r.total_leads - r.qualified_leads - r.faulty_leads,
                         conversion_rate |-> r.conversion_rate,
                         dashboard_metrics |-> r.dashboard_metrics,
                         metric_configs |-> r.configs]])
    /\ UNCHANGED <<leads, lead_seq, qualVars, metricVars, lead_requests, question_requests, auth_calls, followVars>>

-----------------------------------------------------------------------------
\* Seeding, reset and deletion of metric configurations
\* (backend/routes/metric_settings.py)

\* to_list(100) of the metric queries
MetricListLimit == 100

\* The metric_doc of get_metric_settings, lines 61-68
SeedDoc(metric) ==
    SetFields(metric, [show_on_dashboard |-> Get(metric, "show_on_dashboard", TRUE),
                       dashboard_order |-> Get(metric, "dashboard_order", 99)])

\* The metric_doc of reset_metric_settings, lines 168-175, for enumerate index i
ResetDoc(metric, i) ==
    SetFields(metric, [show_on_dashboard |-> TRUE, dashboard_order |-> i])

\* The store after one get_metric_settings call on an empty store
SeededMetrics == [i \in 1..Len(DEFAULT_METRICS) |-> SeedDoc(DEFAULT_METRICS[i])]

\* list.sort(key=lambda x: x.get("dashboard_order", 99)) (stable)
RECURSIVE SortSaved(_)
SortSaved(docs) ==
    IF docs = <<>> THEN <<>>
    ELSE LET least == CHOOSE i \in 1..Len(docs) :
                        \A j \in 1..Len(docs) :
                            \/ Get(docs[i], "dashboard_order", 99)
                                    < Get(docs[j], "dashboard_order", 99)
                            \/ /\ Get(docs[i], "dashboard_order", 99)
                                    = Get(docs[j], "dashboard_order", 99)
                               /\ i <= j
         IN << docs[least] >>
            \o SortSaved([k \in 1..(Len(docs) - 1) |->
                            IF k < least THEN docs[k] ELSE docs[k + 1]])

\* get_metric_settings, lines 56-59: the saved metrics are read
GetSettingsFind ==
    /\ Len(metric_requests) < MaxMetricRequests
    /\ metric_requests' =
            Append(metric_requests,
                   [kind |-> "get_settings",
                    saved_metrics |-> ToList(metric_settings, MetricListLimit),
                    i |-> 1,
                    pc |-> IF metric_settings = <<>> THEN "seed" ELSE "return",
                    response |-> NoResponse])
    /\ UNCHANGED <<leads, lead_seq, qualVars, metric_settings, kpi, otherVars>>

\* get_metric_settings, lines 60-69: one insert_one of the seeding loop
GetSettingsSeed(m) ==
    /\ metric_requests[m].kind = "get_settings"
    /\ metric_requests[m].pc = "seed"
    /\ metric_settings' =
            Append(metric_settings, SeedDoc(DEFAULT_METRICS[metric_requests[m].i]))
    /\ metric_requests' =
            [metric_requests EXCEPT
                ![m].i = @ + 1,
                ![m].pc = IF metric_requests[m].i < Len(DEFAULT_METRICS) THEN "seed"
                          ELSE "find_seeded"]
    /\ UNCHANGED <<leads, lead_seq, qualVars, kpi, otherVars>>

\* get_metric_settings, line 70: the saved metrics are read again
GetSettingsFindSeeded(m) ==
    /\ metric_requests[m].kind = "get_settings"
    /\ metric_requests[m].pc = "find_seeded"
    /\ metric_requests' =
            [metric_requests EXCEPT
                ![m].saved_metrics = ToList(metric_settings, MetricListLimit),
                ![m].pc = "return"]
    /\ UNCHANGED <<leads, lead_seq, qualVars, metric_settings, kpi, otherVars>>

\* get_metric_settings, lines 72-103: the metrics are sorted and returned (the
\* available field values, read from the leads, are not part of the model)
GetSettingsReturn(m) ==
    /\ metric_requests[m].kind = "get_settings"
    /\ metric_requests[m].pc = "return"
    /\ metric_requests' =
            [metric_requests EXCEPT
                ![m].pc = "done",
                ![m].response = [code |-> 200,
                                 metrics |-> SortSaved(metric_requests[m].saved_metrics)]]
    /\ UNCHANGED <<leads, lead_seq, qualVars, metric_settings, kpi, otherVars>>

\* reset_metric_settings, line 165: delete_many({})
ResetDeleteMany ==
    /\ Len(metric_requests) < MaxMetricRequests
    /\ metric_settings' = <<>>
    /\ metric_requests' =
            Append(metric_requests,
                   [kind |-> "reset", i |-> 1, pc |-> "insert", response |-> NoResponse])
    /\ UNCHANGED <<leads, lead_seq, qualVars, kpi, otherVars>>

\* reset_metric_settings, lines 167-178: one insert_one of the loop; the
\* message is returned after the last
ResetInsert(m) ==
    /\ metric_requests[m].kind = "reset"
    /\ metric_requests[m].pc = "insert"
    /\ metric_settings' =
            Append(metric_settings,
                   ResetDoc(DEFAULT_METRICS[metric_requests[m].i], metric_requests[m].i - 1))
    /\ metric_requests' =
            [metric_requests EXCEPT
                ![m].i = @ + 1,
                ![m].pc = IF metric_requests[m].i < Len(DEFAULT_METRICS) THEN "insert"
                          ELSE "done",
                ![m].response = IF metric_requests[m].i < Len(DEFAULT_METRICS)
                                THEN NoResponse ELSE [code |-> 200]]
    /\ UNCHANGED <<leads, lead_seq, qualVars, kpi, otherVars>>

\* delete_metric, lines 226-231: 404 without the metric, 400 for a default one
DeleteMetricFindExisting(metric_id) ==
    /\ Len(metric_requests) < MaxMetricRequests
    /\ LET existing == FindMetric(metric_id)
       IN metric_requests' =
            Append(metric_requests,
                   [kind |-> "delete",
                    metric_id |-> metric_id,
                    pc |-> IF existing # None /\ Get(existing[1], "is_custom", FALSE)
                           THEN "delete" ELSE "done",
                    response |-> IF existing = None THEN NotFound
                                 ELSE IF ~Get(existing[1], "is_custom", FALSE)
                                 THEN [code |-> 400]
                                 ELSE NoResponse])
    /\ UNCHANGED <<leads, lead_seq, qualVars, metric_settings, kpi, otherVars>>

\* delete_metric, lines 233-234: delete_one removes the first document with the
\* metric_id
DeleteMetricDelete(m) ==
    /\ metric_requests[m].kind = "delete"
    /\ metric_requests[m].pc = "delete"
    /\ LET hits == { i \in 1..Len(metric_settings) :
                        metric_settings[i].metric_id = metric_requests[m].metric_id }
           first == IF hits = {} THEN 0 ELSE CHOOSE i \in hits : \A j \in hits : i <= j
       IN metric_settings' =
            IF hits = {} THEN metric_settings
            ELSE [k \in 1..(Len(metric_settings) - 1) |->
                    IF k < first THEN metric_settings[k] ELSE metric_settings[k + 1]]
    /\ metric_requests' = [metric_requests EXCEPT ![m].pc = "done",
                                                  ![m].response = [code |-> 200]]
    /\ UNCHANGED <<leads, lead_seq, qualVars, kpi, otherVars>>

-----------------------------------------------------------------------------
\* get_kpis over a store that is at rest: the leads and the metric
\* configuration are set up, then KPI requests are served

\* Won and lost leads inside the default date range
FormulaLeadInputs ==
    { [state |-> Some("Bihar"), enquiry_stage |-> Some("Closed-Won"),
       enquiry_date |-> Some(1)],
      [state |-> Some("Bihar"), enquiry_stage |-> Some("Closed-Lost"),
       enquiry_date |-> Some(1)] }

\* MetricUpdate bodies that change the formula of conversion_rate
FormulaUpdateInputs ==
    { [denominator_metric |-> <<"won_leads", " ", "+", " ", "total_leads">>],
      [numerator_metric |-> <<"bihar_leads">>],
      [denominator_metric |-> <<"hot_leads">>] }

\* GET /kpis without filters
FormulaKpiParams == { p \in KpiParams : p.state = None /\ p.start_date = None }

\* The metric store is empty or holds the seeded defaults
InitKpis ==
    /\ leads = <<>>
    /\ lead_seq = 0
    /\ qualification_questions = <<>>
    /\ qualification_settings = None
    /\ lead_activities = <<>>
    /\ requests = <<>>
    /\ config_ops = 0
    /\ metric_settings \in {<<>>, SeededMetrics}
    /\ metric_requests = <<>>
    /\ kpi = <<>>
    /\ kpi_request = <<>>
    /\ lead_requests = <<>>
    /\ question_requests = <<>>
    /\ auth_calls = <<>>
    /\ lead_followups = <<>>
    /\ users = InitialUsers
    /\ user_requests = <<>>

NextKpis ==
    \/ \E data \in FormulaLeadInputs :
            kpi_request = None /\ lead_seq < MaxFormulaLeads /\ CreateLead(data)
    \/ \E body \in CustomMetricInputs :
            kpi_request = None /\ body.metric_id = "bihar_leads"
            /\ CreateMetricFindExisting(body)
    \/ \E m \in 1..Len(metric_requests) : kpi_request = None /\ CreateMetricFindMaxOrder(m)
    \/ \E m \in 1..Len(metric_requests) : kpi_request = None /\ CreateMetricInsert(m)
    \/ \E upd \in FormulaUpdateInputs :
            kpi_request = None /\ UpdateMetricFindExisting("conversion_rate", upd)
    \/ \E m \in 1..Len(metric_requests) : kpi_request = None /\ UpdateMetricUpdate(m)
    \/ \E m \in 1..Len(metric_requests) : kpi_request = None /\ UpdateMetricReturn(m)
    \/ \E params \in FormulaKpiParams : KpiCountTotal(params)
    \/ KpiGetConfig
    \/ KpiCount
    \/ KpiCountQualified
    \/ KpiCountFaulty
    \/ KpiGetConversionConfig
    \/ KpiAvgLeadAge
    \/ KpiAvgClosure
    \/ KpiSegments
    \/ KpiStages
    \/ KpiFindMetrics
    \/ KpiDashboardTurn
    \/ KpiReturn

SpecKpis == InitKpis /\ [][NextKpis]_vars

-----------------------------------------------------------------------------
\* Properties of the formula metrics

\* The step of a get_kpis request that computes the conversion rate
ConversionStep ==
    /\ kpi_request # None
    /\ kpi_request[1].pc = "get_conversion_config"
    /\ kpi_request'[1].pc = "avg_lead_age"

\* The step of the dashboard loop that evaluates a formula metric
FormulaTurn ==
    /\ kpi_request # None
    /\ kpi_request[1].pc = "dashboard"
    /\ kpi_request'[1].pc = "dashboard"
    /\ kpi_request'[1].i = kpi_request[1].i + 1
    /\ Get(kpi_request[1].all_metrics[kpi_request[1].i], "metric_type", "count") = "formula"

\* The entry a turn of the dashboard loop appended
TurnEntry == kpi_request'[1].dashboard_metrics[Len(kpi_request'[1].dashboard_metrics)]

\* Whether the configuration carries a numerator and a denominator of its own
HasFormula(config) ==
    /\ config # None
    /\ Get(config[1], "numerator_metric", <<>>) # <<>>
    /\ Get(config[1], "denominator_metric", <<>>) # <<>>

\* The summed numerator and denominator of the conversion rate of a request
ConversionNumerator(r) ==
    IF HasFormula(r.conversion_config)
    THEN SumTerms(MetricValues(r), SplitPlus(r.conversion_config[1].numerator_metric))
    ELSE Hundredths(r.counts["won_leads"])

ConversionDenominator(r) ==
    IF HasFormula(r.conversion_config)
    THEN SumTerms(MetricValues(r), SplitPlus(r.conversion_config[1].denominator_metric))
    ELSE Hundredths(r.counts["won_leads"] + r.counts["lost_leads"])

\* The summed numerator and denominator of a formula metric of the dashboard
TurnNumerator(r) ==
    SumTerms(CalculatedValues(r),
             SplitPlus(Get(r.all_metrics[r.i], "numerator_metric", <<>>)))

TurnDenominator(r) ==
    SumTerms(CalculatedValues(r),
             SplitPlus(Get(r.all_metrics[r.i], "denominator_metric", <<>>)))

\* value is n / d * 100 to the nearest hundredth (value in hundredths)
NearestHundredth(value, n, d) ==
    LET diff == value * d - n * 10000
    IN 2 * (IF diff < 0 THEN -diff ELSE diff) <= d

\* C11: when the summed denominator of the conversion rate or of a formula
\* metric is 0 the value is 0, and the step yields a value (the request goes
\* on) for every configuration and every lead population.
C11_ZeroDenominatorGivesZero ==
    [][/\ ConversionStep
          => /\ kpi_request'[1].response = NoResponse
             /\ ConversionDenominator(kpi_request'[1]) = 0
                    => kpi_request'[1].conversion_rate = 0
       /\ FormulaTurn
          => /\ kpi_request'[1].response = NoResponse
             /\ TurnDenominator(kpi_request[1]) = 0 => TurnEntry.value = 0]_vars

\* A request answered with conversion rate 0 and a formula metric of value 0
\* although leads were won: the denominator names a metric that counts none
C11_Witness ==
    /\ kpi_request # None
    /\ kpi_request[1].pc = "done"
    /\ kpi_request[1].response.code = 200
    /\ kpi_request[1].counts["won_leads"] > 0
    /\ ConversionDenominator(kpi_request[1]) = 0
    /\ kpi_request[1].response.conversion_rate = 0
    /\ \E j \in 1..Len(kpi_request[1].response.dashboard_metrics) :
            /\ kpi_request[1].response.dashboard_metrics[j].metric_type = "formula"
            /\ kpi_request[1].response.dashboard_metrics[j].denominator_metric
                    = Some(<<"hot_leads">>)
            /\ kpi_request[1].response.dashboard_metrics[j].value = 0

\* C12 as stated: with a positive denominator sum the value is exactly the
\* numerator sum divided by the denominator sum, times 100.
C12_FormulaIsExactQuotient ==
    [][/\ (ConversionStep /\ ConversionDenominator(kpi_request'[1]) > 0)
          => kpi_request'[1].conversion_rate * ConversionDenominator(kpi_request'[1])
                = ConversionNumerator(kpi_request'[1]) * 10000
       /\ (FormulaTurn /\ TurnDenominator(kpi_request[1]) > 0)
          => TurnEntry.value * TurnDenominator(kpi_request[1])
                = TurnNumerator(kpi_request[1]) * 10000]_vars

\* C12: with a positive denominator sum the value is the numerator sum divided
\* by the denominator sum, times 100, rounded to two decimals; the sums are
\* over the '+'-separated terms, looked up in the table of computed values.
\* With the default formula, won = 3 and lost = 1 give 75.
C12_FormulaIsRoundedQuotient ==
    [][/\ (ConversionStep /\ ConversionDenominator(kpi_request'[1]) > 0)
          => /\ NearestHundredth(kpi_request'[1].conversion_rate,
                                 ConversionNumerator(kpi_request'[1]),
                                 ConversionDenominator(kpi_request'[1]))
             /\ (/\ ConversionNumerator(kpi_request'[1]) = Hundredths(3)
                 /\ ConversionDenominator(kpi_request'[1]) = Hundredths(4))
                => kpi_request'[1].conversion_rate = Hundredths(75)
       /\ (FormulaTurn /\ TurnDenominator(kpi_request[1]) > 0)
          => /\ NearestHundredth(TurnEntry.value, TurnNumerator(kpi_request[1]),
                                 TurnDenominator(kpi_request[1]))
             /\ (/\ TurnNumerator(kpi_request[1]) = Hundredths(3)
                 /\ TurnDenominator(kpi_request[1]) = Hundredths(4))
                => TurnEntry.value = Hundredths(75)]_vars

\* The scenario: numerator won_leads, denominator won_leads+lost_leads, three
\* leads won and one lost, answered with 75 at the top and on the dashboard
C12_Witness ==
    /\ kpi_request # None
    /\ kpi_request[1].pc = "done"
    /\ kpi_request[1].response.code = 200
    /\ kpi_request[1].counts["won_leads"] = 3
    /\ kpi_request[1].counts["lost_leads"] = 1
    /\ kpi_request[1].conversion_config # None
    /\ kpi_request[1].conversion_config[1].numerator_metric = <<"won_leads">>
    /\ kpi_request[1].conversion_config[1].denominator_metric
            = <<"won_leads", "+", "lost_leads">>
    /\ kpi_request[1].response.conversion_rate = Hundredths(75)
    /\ \E j \in 1..Len(kpi_request[1].response.dashboard_metrics) :
            /\ kpi_request[1].response.dashboard_metrics[j].metric_id = "conversion_rate"
            /\ kpi_request[1].response.dashboard_metrics[j].metric_type = "formula"
            /\ kpi_request[1].response.dashboard_metrics[j].value = Hundredths(75)

\* The stored active count metrics whose metric_id is the term
CountMetricsNamed(term) ==
    { i \in 1..Len(metric_settings) :
        /\ Strip(term) = << metric_settings[i].metric_id >>
        /\ Get(metric_settings[i], "metric_type", "count") = "count"
        /\ Get(metric_settings[i], "is_active", TRUE) }

\* The terms of the numerator and the denominator of the formula metric of a turn
TurnTerms(r) ==
    LET numerator_terms == SplitPlus(Get(r.all_metrics[r.i], "numerator_metric", <<>>))
        denominator_terms == SplitPlus(Get(r.all_metrics[r.i], "denominator_metric", <<>>))
    IN { numerator_terms[k] : k \in 1..Len(numerator_terms) }
       \cup { denominator_terms[k] : k \in 1..Len(denominator_terms) }

\* C13: when a formula metric is evaluated, each term that names a stored
\* active count metric, an admin-created custom one included, contributes the
\* count of that metric under the base query.
C13_TermsContributeTheirCount ==
    [][FormulaTurn
       => \A term \in TurnTerms(kpi_request[1]) :
            \A i \in CountMetricsNamed(term) :
                TermValue(CalculatedValues(kpi_request[1]), term)
                    = Hundredths(count_by_metric(kpi_request[1].base_query,
                                                 Some(metric_settings[i])))]_vars

-----------------------------------------------------------------------------
\* get_kpis over leads of several ages: the leads and the metric configuration
\* are set up, then KPI requests are served

\* Open leads entered yesterday, tomorrow and on a day that is no date; closed
\* leads with a follow-up after, before and on no date; a lead in negotiation
AvgLeadInputs ==
    { [enquiry_stage |-> Some("Prospecting"), enquiry_date |-> Some(1)],
      [enquiry_stage |-> Some("Prospecting"), enquiry_date |-> Some(3)],
      [enquiry_stage |-> Some("Prospecting"), enquiry_date |-> Some(4)],
      [enquiry_stage |-> Some("Closed-Won"), enquiry_date |-> Some(1),
       last_followup_date |-> Some(3)],
      [enquiry_stage |-> Some("Closed-Won"), enquiry_date |-> Some(3),
       last_followup_date |-> Some(1)],
      [enquiry_stage |-> Some("Closed-Won"), enquiry_date |-> Some(1),
       last_followup_date |-> Some(4)],
      [enquiry_stage |-> Some("Negotiation"), enquiry_date |-> Some(1)] }

\* GET /kpis with a date range that holds every lead
AvgKpiParams ==
    { [state |-> None, dealer |-> None, employee_name |-> None, segment |-> None,
       start_date |-> Some(1), end_date |-> Some(4)] }

\* MetricUpdate bodies, by metric_id
AvgUpdateInputs ==
    { [metric_id |-> "open_leads", body |-> [field_values |-> {"Negotiation"}]],
      [metric_id |-> "bihar_leads", body |-> [metric_type |-> "calculated"]] }

NextAvg ==
    \/ \E data \in AvgLeadInputs :
            kpi_request = None /\ lead_seq < MaxAvgLeads /\ CreateLead(data)
    \/ \E body \in CustomMetricInputs :
            kpi_request = None /\ body.metric_id = "bihar_leads"
            /\ CreateMetricFindExisting(body)
    \/ \E m \in 1..Len(metric_requests) : kpi_request = None /\ CreateMetricFindMaxOrder(m)
    \/ \E m \in 1..Len(metric_requests) : kpi_request = None /\ CreateMetricInsert(m)
    \/ \E upd \in AvgUpdateInputs :
            kpi_request = None /\ UpdateMetricFindExisting(upd.metric_id, upd.body)
    \/ \E m \in 1..Len(metric_requests) : kpi_request = None /\ UpdateMetricUpdate(m)
    \/ \E m \in 1..Len(metric_requests) : kpi_request = None /\ UpdateMetricReturn(m)
    \/ \E params \in AvgKpiParams : KpiCountTotal(params)
    \/ KpiGetConfig
    \/ KpiCount
    \/ KpiCountQualified
    \/ KpiCountFaulty
    \/ KpiGetConversionConfig
    \/ KpiAvgLeadAge
    \/ KpiAvgClosure
    \/ KpiSegments
    \/ KpiStages
    \/ KpiFindMetrics
    \/ KpiDashboardTurn
    \/ KpiReturn

SpecAvg == InitKpis /\ [][NextAvg]_vars

-----------------------------------------------------------------------------
\* Properties of the calculated metrics

\* The steps of a get_kpis request that run the two aggregations
LeadAgeStep ==
    /\ kpi_request # None
    /\ kpi_request[1].pc = "avg_lead_age"
    /\ kpi_request'[1].pc # "avg_lead_age"

ClosureStep ==
    /\ kpi_request # None
    /\ kpi_request[1].pc = "avg_closure"
    /\ kpi_request'[1].pc # "avg_closure"

\* The leads the average lead age of a request is taken over
OpenPopulation(r) ==
    LET open_stages == IF r.configs["open_leads"] # None
                       THEN Get(r.configs["open_leads"][1], "field_values", DefaultOpenStages)
                       ELSE DefaultOpenStages
    IN { id \in DOMAIN leads :
            /\ Matches(leads[id], r.base_query)
            /\ leads[id].enquiry_stage # None
            /\ leads[id].enquiry_stage[1] \in open_stages }

\* The leads the average closure time of a request is taken over
ClosedPopulation(r) ==
    LET configured ==
            (IF r.configs["won_leads"] # None
             THEN Get(r.configs["won_leads"][1], "field_values", {}) ELSE {})
            \cup
            (IF r.configs["lost_leads"] # None
             THEN Get(r.configs["lost_leads"][1], "field_values", {}) ELSE {})
        closed_stages == IF configured = {} THEN DefaultClosedStages ELSE configured
    IN { id \in DOMAIN leads :
            /\ Matches(leads[id], r.base_query)
            /\ leads[id].enquiry_stage # None
            /\ leads[id].enquiry_stage[1] \in closed_stages }

\* Whether a nullable date string is a date
IsDate(opt) == opt # None /\ opt # Some(EmptyDate) /\ opt[1] \notin UnparsableDates

\* The day-delta of a lead between its enquiry_date and today, and between its
\* enquiry_date and its last_followup_date
AgeDelta == [id \in DOMAIN leads |-> Today - leads[id].enquiry_date[1]]

ClosureDelta ==
    [id \in DOMAIN leads |->
        IF IsDate(leads[id].last_followup_date) /\ IsDate(leads[id].enquiry_date)
        THEN leads[id].last_followup_date[1] - leads[id].enquiry_date[1]
        ELSE 0]

\* The mean of the deltas to one decimal, 0 over no lead
MeanOf(delta, ids) ==
    IF ids = {} THEN 0 ELSE 10 * RoundDiv(SumOver(delta, ids) * 10, Cardinality(ids))

\* C14: the average lead age and the average closure time are the mean of the
\* day-deltas of the leads of the population whose delta is valid and not
\* negative, and 0 when there is no such lead.
C14_MeanOfNonNegativeDeltas ==
    [][/\ (LeadAgeStep /\ \A id \in OpenPopulation(kpi_request[1]) :
                                IsDate(leads[id].enquiry_date))
          => /\ kpi_request'[1].pc = "avg_closure"
             /\ kpi_request'[1].avg_lead_age =
                    MeanOf(AgeDelta, { id \in OpenPopulation(kpi_request[1]) :
                                            AgeDelta[id] >= 0 })
       /\ (ClosureStep /\ \A id \in ClosedPopulation(kpi_request[1]) :
                                /\ IsDate(leads[id].enquiry_date)
                                /\ IsDate(leads[id].last_followup_date))
          => /\ kpi_request'[1].pc = "segments"
             /\ kpi_request'[1].avg_closure_time =
                    MeanOf(ClosureDelta, { id \in ClosedPopulation(kpi_request[1]) :
                                                ClosureDelta[id] >= 0 })]_vars

\* C15: a lead of the population whose start or end date is missing or is no
\* date is left out of the average, which is taken over the other leads, and
\* the request goes on.
C15_MalformedDateIsSkipped ==
    [][/\ LeadAgeStep
          => /\ kpi_request'[1].pc = "avg_closure"
             /\ kpi_request'[1].avg_lead_age =
                    RoundedAverage(AgeDelta, { id \in OpenPopulation(kpi_request[1]) :
                                                    IsDate(leads[id].enquiry_date) })
       /\ ClosureStep
          => /\ kpi_request'[1].pc = "segments"
             /\ kpi_request'[1].avg_closure_time =
                    RoundedAverage(ClosureDelta,
                                   { id \in ClosedPopulation(kpi_request[1]) :
                                        /\ IsDate(leads[id].enquiry_date)
                                        /\ IsDate(leads[id].last_followup_date)
                                        /\ ClosureDelta[id] >= 0 })]_vars

\* The step of the dashboard loop that evaluates a calculated metric
CalculatedTurn ==
    /\ kpi_request # None
    /\ kpi_request[1].pc = "dashboard"
    /\ kpi_request'[1].pc = "dashboard"
    /\ kpi_request'[1].i = kpi_request[1].i + 1
    /\ Get(kpi_request[1].all_metrics[kpi_request[1].i], "metric_type", "count")
            = "calculated"

\* Every lead has dates that parse, an enquiry not after today and a follow-up
\* not before the enquiry
DatesWellFormed ==
    \A id \in DOMAIN leads :
        /\ IsDate(leads[id].enquiry_date)
        /\ AgeDelta[id] >= 0
        /\ leads[id].last_followup_date # None
                => IsDate(leads[id].last_followup_date) /\ ClosureDelta[id] >= 0

\* The average of a calculated metric by its own configuration
OwnAverage(base_query, metric) ==
    LET population == { id \in DOMAIN leads :
                            /\ Matches(leads[id], base_query)
                            /\ leads[id].enquiry_stage # None
                            /\ leads[id].enquiry_stage[1]
                                    \in Get(metric, "filter_stages", {}) }
        start_field == Get(metric, "start_date_field", "enquiry_date")
        end_field == Get(metric, "end_date_field", "today")
        dated == { id \in population :
                        /\ leads[id][start_field] # None
                        /\ end_field # "today" => leads[id][end_field] # None }
        delta == [id \in dated |->
                    (IF end_field = "today" THEN Today ELSE leads[id][end_field][1])
                    - leads[id][start_field][1]]
    IN RoundedAverage(delta, dated)

\* C16: the value of a calculated metric is the average, over the leads whose
\* stage is in the metric's filter_stages, of the days between the metric's
\* start_date_field and end_date_field ('today' meaning now).
C16_CalculatedFromOwnConfiguration ==
    [][(CalculatedTurn /\ DatesWellFormed)
       => TurnEntry.value
            = OwnAverage(kpi_request[1].base_query,
                         kpi_request[1].all_metrics[kpi_request[1].i])]_vars

-----------------------------------------------------------------------------
\* The metric store under concurrent requests

\* The insert loops of two requests are run one after the other, the earlier
\* request first: how their documents interleave in the store is not followed
LoopTurn(m) ==
    \A k \in 1..(m - 1) : metric_requests[k].pc \notin {"seed", "insert"}

\* Only get_metric_settings is called
NextSeed ==
    \/ GetSettingsFind
    \/ \E m \in 1..Len(metric_requests) : LoopTurn(m) /\ GetSettingsSeed(m)
    \/ \E m \in 1..Len(metric_requests) : GetSettingsFindSeeded(m)
    \/ \E m \in 1..Len(metric_requests) : GetSettingsReturn(m)

SpecSeed == InitStore /\ [][NextSeed]_vars

\* Every operation on the metric store
NextMetricStore ==
    \/ GetSettingsFind
    \/ \E m \in 1..Len(metric_requests) : LoopTurn(m) /\ GetSettingsSeed(m)
    \/ \E m \in 1..Len(metric_requests) : GetSettingsFindSeeded(m)
    \/ \E m \in 1..Len(metric_requests) : GetSettingsReturn(m)
    \/ ResetDeleteMany
    \/ \E m \in 1..Len(metric_requests) : LoopTurn(m) /\ ResetInsert(m)
    \/ \E body \in CustomMetricInputs : CreateMetricFindExisting(body)
    \/ \E m \in 1..Len(metric_requests) : CreateMetricFindMaxOrder(m)
    \/ \E m \in 1..Len(metric_requests) : CreateMetricInsert(m)
    \/ \E body \in CustomMetricInputs, upd \in MetricUpdateInputs :
            UpdateMetricFindExisting(body.metric_id, upd)
    \/ \E m \in 1..Len(metric_requests) : UpdateMetricUpdate(m)
    \/ \E m \in 1..Len(metric_requests) : UpdateMetricReturn(m)
    \/ \E body \in CustomMetricInputs : DeleteMetricFindExisting(body.metric_id)
    \/ \E m \in 1..Len(metric_requests) : DeleteMetricDelete(m)

SpecMetricStore == InitStore /\ [][NextMetricStore]_vars

\* The documents of the store with the metric_id
DocsWithId(metric_id) ==
    { i \in 1..Len(metric_settings) : metric_settings[i].metric_id = metric_id }

DefaultIds == { DEFAULT_METRICS[i].metric_id : i \in 1..Len(DEFAULT_METRICS) }

\* C17: once get_metric_settings calls on an initially empty store have
\* returned, the store holds exactly one document for each default metric_id,
\* and a call that finds the store non-empty inserts nothing.
C17_SeededExactlyOnce ==
    (/\ metric_requests # <<>>
     /\ \A m \in 1..Len(metric_requests) : metric_requests[m].pc = "done")
    => /\ \A metric_id \in DefaultIds : Cardinality(DocsWithId(metric_id)) = 1
       /\ Len(metric_settings) = Cardinality(DefaultIds)

\* C18: no two documents of the metric store share a metric_id.
C18_MetricIdUnique ==
    \A i \in 1..Len(metric_settings), j \in 1..Len(metric_settings) :
        metric_settings[i].metric_id = metric_settings[j].metric_id => i = j

-----------------------------------------------------------------------------
\* Removal of leads (backend/routes/leads.py, backend/routes/admin.py)

\* UserRole of the callers: user_a is the Admin, user_b a Manager, user_c an
\* Employee
Callers == Users \cup {"user_c"}

RoleOf(user_id) ==
    IF user_id \in Admins THEN "Admin"
    ELSE IF user_id = "user_b" THEN "Manager"
    ELSE "Employee"

\* Lead bodies, update bodies, lead_ids lists and uploaded files of the requests
RemovalLeadInputs ==
    { [state |-> Some("Bihar"), enquiry_date |-> Some(1)],
      [state |-> Some("Delhi"), enquiry_date |-> Some(3)] }

LeadUpdateInputs == { [state |-> Some("Goa")] }

BulkDeleteInputs == { {}, {1}, {1, 2} }

\* An uploaded file: its name, its header row and its rows; a date cell is a
\* day number, an unreadable text or empty
HistoricalFiles ==
    { [filename |-> "leads.csv", columns |-> {"Enquiry Date", "State"},
       rows |-> << [EnquiryDate |-> Some(2), State |-> Some("Bihar")] >>],
      [filename |-> "leads.xlsx", columns |-> {"Enquiry Date", "State"},
       rows |-> << >>],
      [filename |-> "leads.xlsx", columns |-> {"State"},
       rows |-> << [State |-> Some("Bihar")] >>],
      [filename |-> "leads.xlsx", columns |-> {"Enquiry Date", "State"},
       rows |-> << [EnquiryDate |-> Some(4), State |-> Some("Bihar")] >>],
      [filename |-> "leads.xlsx", columns |-> {"Enquiry Date", "State"},
       rows |-> << [EnquiryDate |-> Some(2), State |-> Some("Bihar")],
                   [EnquiryDate |-> None, State |-> Some("Delhi")] >>] }

leadRestVars == <<qualVars, metricVars, kpi_request, question_requests, auth_calls, followVars>>

LeadsWithout(removed) == [id \in (DOMAIN leads) \ removed |-> leads[id]]

LeadOutcome(kind, user_id, code) ==
    [kind |-> kind, user_id |-> user_id, pc |-> "done", response |-> [code |-> code]]

\* The fields of LeadUpdate: pydantic drops every other key of the body
LeadUpdateFields ==
    {"zone", "state", "area", "office", "dealer", "branch", "location",
     "employee_code", "employee_name", "employee_status", "enquiry_no",
     "enquiry_date", "customer_type", "corporate_name", "name", "phone_number",
     "email_address", "pincode", "tehsil", "district", "kva", "phase", "qty",
     "remarks", "enquiry_status", "enquiry_type", "enquiry_stage", "eo_po_date",
     "planned_followup_date", "last_followup_date", "enquiry_closure_date",
     "source", "source_from", "events", "no_of_followups", "segment",
     "sub_segment", "dg_ownership", "pan_no", "finance_required",
     "finance_company", "referred_by"}

\* Variant of LeadUpdateData: every key of the body is kept
LeadUpdateDataUnfiltered(body) == body

\* update_data of update_lead: the LeadUpdate fields of the body that are not
\* None
LeadUpdateData(body) == [k \in (DOMAIN body) \cap LeadUpdateFields |-> body[k]]

\* update_lead, up to its find_one: 404 without the lead
UpdateLeadFind(current_user, lead_id, lead_data) ==
    /\ Len(lead_requests) < MaxLeadRequests
    /\ lead_requests' =
         Append(lead_requests,
                IF lead_id \in DOMAIN leads
                THEN [kind |-> "update_lead", user_id |-> current_user, pc |-> "update",
                      lead_id |-> lead_id, update_data |-> LeadUpdateData(lead_data),
                      response |-> [code |-> 0]]
                ELSE LeadOutcome("update_lead", current_user, 404))
    /\ UNCHANGED <<leads, lead_seq, leadRestVars>>

\* update_lead: update_one({"lead_id": lead_id}, {"$set": update_data})
UpdateLeadUpdate(m) ==
    /\ lead_requests[m].pc = "update"
    /\ LET req == lead_requests[m]
       IN leads' = [id \in DOMAIN leads |->
                       IF id = req.lead_id THEN SetFields(leads[id], req.update_data)
                       ELSE leads[id]]
    /\ lead_requests' = [lead_requests EXCEPT ![m].pc = "done",
                                              ![m].response = [code |-> 200]]
    /\ UNCHANGED <<lead_seq, leadRestVars>>

\* Variant of delete_lead without the role test
delete_lead_any_role(current_user, lead_id) ==
    /\ Len(lead_requests) < MaxLeadRequests
    /\ leads' = LeadsWithout({lead_id})
    /\ lead_requests' =
         Append(lead_requests,
                LeadOutcome("delete_lead", current_user,
                             IF lead_id \in DOMAIN leads THEN 200 ELSE 404))
    /\ UNCHANGED <<lead_seq, leadRestVars>>

\* delete_lead: 403 unless the caller is Admin or Manager; delete_one by
\* lead_id; 404 when nothing was deleted
delete_lead(current_user, lead_id) ==
    /\ Len(lead_requests) < MaxLeadRequests
    /\ LET permitted == RoleOf(current_user) \in {"Admin", "Manager"}
       IN /\ leads' = IF permitted THEN LeadsWithout({lead_id}) ELSE leads
          /\ lead_requests' =
               Append(lead_requests,
                      LeadOutcome("delete_lead", current_user,
                                   IF ~permitted THEN 403
                                   ELSE IF lead_id \in DOMAIN leads THEN 200
                                   ELSE 404))
    /\ UNCHANGED <<lead_seq, leadRestVars>>

\* delete_leads_bulk: Admin only; 400 without lead_ids; delete_many over the
\* listed lead_ids
delete_leads_bulk(current_user, lead_ids) ==
    /\ Len(lead_requests) < MaxLeadRequests
    /\ LET permitted == RoleOf(current_user) = "Admin"
           deletes == permitted /\ lead_ids # {}
       IN /\ leads' = IF deletes THEN LeadsWithout(lead_ids) ELSE leads
          /\ lead_requests' =
               Append(lead_requests,
                      LeadOutcome("bulk_delete", current_user,
                                   IF ~permitted THEN 403
                                   ELSE IF lead_ids = {} THEN 400
                                   ELSE 200))
    /\ UNCHANGED <<lead_seq, leadRestVars>>

\* parse_date of a cell: None for an empty or unreadable cell
parse_date(val) ==
    IF val = None THEN None
    ELSE IF val[1] \in UnparsableDates \/ val[1] = EmptyDate THEN None
    ELSE val

\* The parsed dates of the file's date column
FileDates(file) ==
    { parse_date(file.rows[i].EnquiryDate)[1] :
        i \in { k \in 1..Len(file.rows) : parse_date(file.rows[k].EnquiryDate) # None } }

\* upload_historical_data, up to its delete_many: Admin only; 400 for a file
\* that is not Excel, is empty, has no date column or no valid date; then every
\* lead with enquiry_date <= max_date is deleted
UploadHistoricalDelete(current_user, file) ==
    /\ Len(lead_requests) < MaxLeadRequests
    /\ lead_seq + Len(file.rows) <= MaxLeadSeq
    /\ LET permitted == RoleOf(current_user) = "Admin"
           excel == file.filename \in {"leads.xlsx", "leads.xls"}
           readable == /\ permitted
                       /\ excel
                       /\ file.rows # <<>>
                       /\ "Enquiry Date" \in file.columns
           dates == IF readable THEN FileDates(file) ELSE {}
           max_date == IF dates = {} THEN 0
                       ELSE CHOOSE d \in dates : \A other \in dates : other <= d
           matched == { id \in DOMAIN leads :
                          Holds(leads[id], "enquiry_date", RangeCond(0, max_date)) }
       IN IF dates = {}
          THEN /\ lead_requests' =
                    Append(lead_requests,
                           LeadOutcome("historical_upload", current_user,
                                        IF permitted THEN 400 ELSE 403))
               /\ UNCHANGED leads
          ELSE /\ leads' = LeadsWithout(matched)
               /\ lead_requests' =
                    Append(lead_requests,
                           [kind |-> "historical_upload", user_id |-> current_user,
                            pc |-> "insert", i |-> 1, file |-> file,
                            deleted_count |-> Cardinality(matched),
                            response |-> [code |-> 0]])
    /\ UNCHANGED <<lead_seq, leadRestVars>>

\* The lead_doc of a row: a fresh lead_id and the mapped columns of the file
HistoricalLead(row, lead_id) ==
    [lead_id |-> lead_id,
     state |-> Get(row, "State", None),
     enquiry_date |-> parse_date(row.EnquiryDate)]

\* upload_historical_data: one turn of the insert loop
UploadHistoricalInsert(m) ==
    /\ lead_requests[m].pc = "insert"
    /\ lead_requests[m].i <= Len(lead_requests[m].file.rows)
    /\ LET req == lead_requests[m]
           lead_doc == HistoricalLead(req.file.rows[req.i], lead_seq + 1)
       IN leads' = [id \in (DOMAIN leads) \cup {lead_seq + 1} |->
                       IF id = lead_seq + 1 THEN lead_doc ELSE leads[id]]
    /\ lead_seq' = lead_seq + 1
    /\ lead_requests' = [lead_requests EXCEPT ![m].i = @ + 1]
    /\ UNCHANGED leadRestVars

\* upload_historical_data: the response after the loop
UploadHistoricalReturn(m) ==
    /\ lead_requests[m].pc = "insert"
    /\ lead_requests[m].i > Len(lead_requests[m].file.rows)
    /\ lead_requests' = [lead_requests EXCEPT ![m].pc = "done",
                                              ![m].response = [code |-> 200]]
    /\ UNCHANGED <<leads, lead_seq, leadRestVars>>

\* Every operation that writes the leads collection; update_lead and
\* qualify_lead read no role and are called by the Employee, qualify_lead once
NextLeads ==
    \/ \E data \in RemovalLeadInputs : lead_seq < MaxRemovalLeads /\ CreateLead(data)
    \/ \E id \in 1..MaxRemovalLeads, data \in LeadUpdateInputs :
            UpdateLeadFind("user_c", id, data)
    \/ \E m \in 1..Len(lead_requests) : UpdateLeadUpdate(m)
    \/ \E user \in Callers, id \in 1..MaxRemovalLeads : delete_lead(user, id)
    \/ \E user \in Callers, lead_ids \in BulkDeleteInputs : delete_leads_bulk(user, lead_ids)
    \/ \E user \in Callers, file \in HistoricalFiles : UploadHistoricalDelete(user, file)
    \/ \E m \in 1..Len(lead_requests) : UploadHistoricalInsert(m)
    \/ \E m \in 1..Len(lead_requests) : UploadHistoricalReturn(m)
    \/ \E id \in 1..MaxRemovalLeads :
            requests = <<>> /\ QualifyFindLead(id, <<>>, "user_c")
    \/ \E r \in 1..Len(requests) : QualifyScore(r)
    \/ \E r \in 1..Len(requests) : QualifyClassify(r)
    \/ \E r \in 1..Len(requests) : QualifyUpdateLead(r)
    \/ \E r \in 1..Len(requests) : QualifyLogActivity(r)

SpecLeads == InitStore /\ [][NextLeads]_vars

\* The step removes a lead document
RemovesLead == (DOMAIN leads) \ (DOMAIN leads') # {}

\* The step was taken by a request of one of the kinds, made by a caller with
\* one of the roles
StepOf(kinds, roles) ==
    \E m \in 1..Len(lead_requests') :
        /\ IF m > Len(lead_requests) THEN TRUE ELSE lead_requests[m] # lead_requests'[m]
        /\ lead_requests'[m].kind \in kinds
        /\ RoleOf(lead_requests'[m].user_id) \in roles

\* C19: a lead document is removed from the leads store only by the admin
\* bulk-delete operation or by the historical-data replace upload.
C19_RemovedOnlyByBulkOrHistorical ==
    [][RemovesLead => StepOf({"bulk_delete", "historical_upload"}, {"Admin"})]_vars

\* C19: a lead document is removed from the leads store only by delete_lead
\* called by an Admin or a Manager, by the admin bulk-delete operation or by the
\* historical-data replace upload; no other operation and no other role removes
\* a lead.
C19_RemovedOnlyByDeleteOperations ==
    [][RemovesLead =>
         \/ StepOf({"delete_lead"}, {"Admin", "Manager"})
         \/ StepOf({"bulk_delete", "historical_upload"}, {"Admin"})]_vars

\* A Manager has deleted a lead with delete_lead, and an upload has replaced one
C19_Witness ==
    /\ \E m \in 1..Len(lead_requests) :
          /\ lead_requests[m].kind = "delete_lead"
          /\ RoleOf(lead_requests[m].user_id) = "Manager"
          /\ lead_requests[m].response.code = 200
    /\ \E m \in 1..Len(lead_requests) :
          /\ lead_requests[m].kind = "historical_upload"
          /\ lead_requests[m].response.code = 200
          /\ lead_requests[m].deleted_count > 0

-----------------------------------------------------------------------------
\* Operations on a resource that does not exist

\* The questions with the question_id
QuestionHits(question_id) ==
    { i \in 1..Len(qualification_questions) :
        qualification_questions[i].question_id = question_id }

\* update_one on the questions: the first matching document receives the fields
SetQuestionFields(question_id, fields) ==
    LET hits == QuestionHits(question_id)
    IN [i \in 1..Len(qualification_questions) |->
          IF i \in hits /\ \A j \in hits : i <= j
          THEN SetFields(qualification_questions[i], fields)
          ELSE qualification_questions[i]]

QuestionResponse(kind, question_id) ==
    [kind |-> kind, question_id |-> question_id,
     response |-> IF QuestionHits(question_id) = {} THEN NotFound ELSE [code |-> 200]]

\* Variant: update_one with upsert, a missing question is created
update_qualification_question_upsert(question_id, body) ==
    /\ Len(question_requests) < MaxQuestionRequests
    /\ qualification_questions' =
         IF QuestionHits(question_id) = {}
         THEN Append(qualification_questions,
                     SetFields([question_id |-> question_id], QuestionUpdateData(body)))
         ELSE SetQuestionFields(question_id, QuestionUpdateData(body))
    /\ question_requests' =
         Append(question_requests,
                [kind |-> "update", question_id |-> question_id,
                 response |-> [code |-> 200]])
    /\ UNCHANGED <<leads, lead_seq, qualification_settings, lead_activities, requests,
                   config_ops, metricVars, kpi_request, lead_requests, auth_calls, followVars>>

\* update_qualification_question: update_one({"question_id": question_id},
\* {"$set": update_data}); update_data carries a fresh updated_at, so a matched
\* question is modified; 404 when modified_count is 0
update_qualification_question(question_id, body) ==
    /\ Len(question_requests) < MaxQuestionRequests
    /\ qualification_questions' = SetQuestionFields(question_id, QuestionUpdateData(body))
    /\ question_requests' = Append(question_requests, QuestionResponse("update", question_id))
    /\ UNCHANGED <<leads, lead_seq, qualification_settings, lead_activities, requests,
                   config_ops, metricVars, kpi_request, lead_requests, auth_calls, followVars>>

\* delete_qualification_question: update_one setting is_active False and a
\* fresh updated_at; 404 when modified_count is 0
delete_qualification_question(question_id) ==
    /\ Len(question_requests) < MaxQuestionRequests
    /\ qualification_questions' = SetQuestionFields(question_id, [is_active |-> FALSE])
    /\ question_requests' = Append(question_requests, QuestionResponse("delete", question_id))
    /\ UNCHANGED <<leads, lead_seq, qualification_settings, lead_activities, requests,
                   config_ops, metricVars, kpi_request, lead_requests, auth_calls, followVars>>

\* The metric_ids and question_ids named by the requests: present and absent
MetricIdInputs == {"won_leads", "bihar_leads", "no_such_metric"}

QuestionIdInputs == {<<1>>, <<2>>}

NextNotFound ==
    \/ \E data \in QualLeadInputs : lead_seq < MaxLeads /\ CreateLead(data)
    \/ \E id \in 1..MaxLeads : DeleteLead(id)
    \/ \E data \in QuestionInputs :
            qualification_questions = <<>> /\ data.is_required /\ CreateQuestion(data)
    \/ \E question_id \in QuestionIdInputs, body \in QuestionUpdateInputs :
            update_qualification_question(question_id, body)
    \/ \E question_id \in QuestionIdInputs : delete_qualification_question(question_id)
    \/ \E body \in CustomMetricInputs :
            body.metric_id = "bihar_leads" /\ CreateMetricFindExisting(body)
    \/ \E m \in 1..Len(metric_requests) : CreateMetricFindMaxOrder(m)
    \/ \E m \in 1..Len(metric_requests) : CreateMetricInsert(m)
    \/ \E metric_id \in MetricIdInputs :
            UpdateMetricFindExisting(metric_id, [is_active |-> FALSE])
    \/ \E m \in 1..Len(metric_requests) : UpdateMetricUpdate(m)
    \/ \E m \in 1..Len(metric_requests) : UpdateMetricReturn(m)
    \/ \E metric_id \in MetricIdInputs : DeleteMetricFindExisting(metric_id)
    \/ \E m \in 1..Len(metric_requests) : DeleteMetricDelete(m)
    \/ \E id \in 1..MaxLeads, answers \in {<<>>} :
            requests = <<>> /\ QualifyFindLead(id, answers, "user_b")
    \/ \E r \in 1..Len(requests) : QualifyScore(r)
    \/ \E r \in 1..Len(requests) : QualifyClassify(r)
    \/ \E r \in 1..Len(requests) : QualifyUpdateLead(r)
    \/ \E r \in 1..Len(requests) : QualifyLogActivity(r)

SpecNotFound == InitKpis /\ [][NextNotFound]_vars

\* Every stored collection
stores == <<leads, qualification_questions, qualification_settings, lead_activities,
            metric_settings>>

\* The step starts a request of the sequence; the request is its last element
Starts(seq, seqAfter) == Len(seqAfter) = Len(seq) + 1

\* The request answered 404 and has finished
Answers404(req) ==
    /\ req.response = NotFound
    /\ IF "pc" \in DOMAIN req THEN req.pc = "done" ELSE TRUE

\* The step starts update_metric_setting or delete_metric on a metric_id that
\* no document has
UnknownMetricStep ==
    /\ Starts(metric_requests, metric_requests')
    /\ metric_requests'[Len(metric_requests')].kind \in {"update", "delete"}
    /\ FindMetric(metric_requests'[Len(metric_requests')].metric_id) = None

\* The step is an update or delete of a question_id that no question has
UnknownQuestionStep ==
    /\ Starts(question_requests, question_requests')
    /\ QuestionHits(question_requests'[Len(question_requests')].question_id) = {}

\* The step starts qualify_lead on a lead_id that no lead has
UnknownLeadStep ==
    /\ Starts(requests, requests')
    /\ requests'[Len(requests')].lead_id \notin DOMAIN leads

\* A request that answered 404 takes no further step
Settled(seq, seqAfter) ==
    \A m \in 1..Len(seq) : Answers404(seq[m]) => seqAfter[m] = seq[m]

\* C20: an operation that names a resource which does not exist
\* (update_metric_setting, delete_metric, update or delete of a question,
\* qualify_lead) answers 404 and leaves every stored collection unchanged, in
\* that step and ever after.
C20_UnknownResourceIs404 ==
    [][/\ UnknownMetricStep =>
             Answers404(metric_requests'[Len(metric_requests')]) /\ UNCHANGED stores
       /\ UnknownQuestionStep =>
             Answers404(question_requests'[Len(question_requests')]) /\ UNCHANGED stores
       /\ UnknownLeadStep =>
             Answers404(requests'[Len(requests')]) /\ UNCHANGED stores
       /\ Settled(metric_requests, metric_requests')
       /\ Settled(question_requests, question_requests')
       /\ Settled(requests, requests')]_vars

\* Each of the five operations has answered 404 while the stores held documents
C20_Witness ==
    /\ leads # <<>>
    /\ qualification_questions # <<>>
    /\ metric_settings # <<>>
    /\ \E m \in 1..Len(metric_requests) :
          metric_requests[m].kind = "update" /\ metric_requests[m].response = NotFound
    /\ \E m \in 1..Len(metric_requests) :
          metric_requests[m].kind = "delete" /\ metric_requests[m].response = NotFound
    /\ \E m \in 1..Len(question_requests) :
          question_requests[m].kind = "update" /\ question_requests[m].response = NotFound
    /\ \E m \in 1..Len(question_requests) :
          question_requests[m].kind = "delete" /\ question_requests[m].response = NotFound
    /\ \E r \in 1..Len(requests) : requests[r].response = NotFound

-----------------------------------------------------------------------------
\* Updating a metric configuration (backend/routes/metric_settings.py)

\* Request bodies of PUT /metric-settings/{metric_id} for the calculated metrics
CalculatedUpdateInputs ==
    { [start_date_field |-> "planned_followup_date",
       end_date_field |-> "last_followup_date",
       filter_stages |-> {"Prospecting", "Negotiation"}],
      [start_date_field |-> "enquiry_date",
       end_date_field |-> "today",
       filter_stages |-> {"Prospecting", "Qualified"},
       is_active |-> FALSE],
      [dashboard_order |-> 3],
      [metric_type |-> "count", field_values |-> {"Hot"}] }

CalculatedIdInputs == {"avg_lead_age", "avg_closure_time", "no_such_metric"}

NextMetricUpdate ==
    \/ \E metric_id \in CalculatedIdInputs, body \in CalculatedUpdateInputs :
            UpdateMetricFindExisting(metric_id, body)
    \/ \E m \in 1..Len(metric_requests) : UpdateMetricUpdate(m)
    \/ \E m \in 1..Len(metric_requests) : UpdateMetricReturn(m)

InitSeeded ==
    /\ InitKpis
    /\ metric_settings = SeededMetrics

SpecMetricUpdate == InitSeeded /\ [][NextMetricUpdate]_vars

\* The three parameters of a calculated metric
CalculatedParameters == {"start_date_field", "end_date_field", "filter_stages"}

\* The document carries the body's values of the fields
Carries(doc, body, fields) ==
    /\ doc # None
    /\ \A k \in fields : k \in DOMAIN doc[1] /\ doc[1][k] = body[k]

\* Request m names the three parameters for a stored calculated metric
SetsCalculatedParameters(m) ==
    /\ metric_requests[m].kind = "update"
    /\ CalculatedParameters \subseteq DOMAIN metric_requests[m].body
    /\ FindMetric(metric_requests[m].metric_id) # None
    /\ Get(FindMetric(metric_requests[m].metric_id)[1], "metric_type", "count") = "calculated"

\* C21: when update_metric_setting is called on a calculated metric with
\* start_date_field, end_date_field and filter_stages in the request, its write
\* leaves the stored configuration holding the submitted values of the three
\* fields, and its response returns them.
C21_CalculatedParametersStored ==
    [][\A m \in 1..Len(metric_requests) :
          /\ (/\ SetsCalculatedParameters(m)
              /\ metric_requests[m].pc = "update"
              /\ metric_requests'[m].pc = "find_updated")
             => Carries(FindMetric(metric_requests[m].metric_id)',
                        metric_requests[m].body, CalculatedParameters)
          /\ (/\ SetsCalculatedParameters(m)
              /\ metric_requests[m].pc = "find_updated"
              /\ metric_requests'[m].pc = "done"
              /\ Len(metric_requests) = 1)
             => Carries(Some(metric_requests'[m].response.metric[1]),
                        metric_requests[m].body, CalculatedParameters)]_vars

-----------------------------------------------------------------------------
\* Updating the formula of conversion_rate

\* MetricUpdate bodies for conversion_rate: a numerator, a denominator, both,
\* and an empty numerator
FormulaEditInputs ==
    { [numerator_metric |-> <<"lost_leads">>],
      [denominator_metric |-> <<"total_leads">>],
      [numerator_metric |-> <<"won_leads">>,
       denominator_metric |-> <<"won_leads", "+", "lost_leads">>, is_active |-> FALSE],
      [numerator_metric |-> <<>>] }

NextFormulaUpdate ==
    \/ \E data \in FormulaLeadInputs :
            kpi_request = None /\ lead_seq < MaxEditLeads /\ CreateLead(data)
    \/ \E body \in FormulaEditInputs : UpdateMetricFindExisting("conversion_rate", body)
    \/ \E m \in 1..Len(metric_requests) : UpdateMetricUpdate(m)
    \/ \E m \in 1..Len(metric_requests) : UpdateMetricReturn(m)
    \/ \E params \in FormulaKpiParams : KpiCountTotal(params)
    \/ KpiGetConfig
    \/ KpiCount
    \/ KpiCountQualified
    \/ KpiCountFaulty
    \/ KpiGetConversionConfig
    \/ KpiAvgLeadAge
    \/ KpiAvgClosure
    \/ KpiSegments
    \/ KpiStages
    \/ KpiFindMetrics
    \/ KpiDashboardTurn
    \/ KpiReturn

SpecFormulaUpdate == InitKpis /\ [][NextFormulaUpdate]_vars

FormulaFields == {"numerator_metric", "denominator_metric"}

\* Request m writes a formula field of the stored conversion_rate in this step
FormulaWrite(m) ==
    /\ metric_requests[m].kind = "update"
    /\ metric_requests[m].metric_id = "conversion_rate"
    /\ FormulaFields \cap DOMAIN metric_requests[m].body # {}
    /\ metric_requests[m].pc = "update"
    /\ metric_requests'[m].pc = "find_updated"
    /\ FindMetric("conversion_rate") # None

\* Request m, the only one, returns in this step
FormulaReturn(m) ==
    /\ Len(metric_requests) = 1
    /\ metric_requests[m].kind = "update"
    /\ FormulaFields \cap DOMAIN metric_requests[m].body # {}
    /\ metric_requests[m].pc = "find_updated"
    /\ metric_requests'[m].pc = "done"

\* The write stores the named fields and keeps every field the body does not name
StoresFormula(m) ==
    LET body == metric_requests[m].body
        before == FindMetric("conversion_rate")[1]
        after == FindMetric("conversion_rate")'
    IN /\ Carries(after, body, DOMAIN body)
       /\ \A k \in (DOMAIN before) \ (DOMAIN body) :
             k \in DOMAIN after[1] /\ after[1][k] = before[k]

\* The quotient of the summed terms of the two fields of a stored configuration
IsQuotientOf(value, config, values) ==
    LET n == SumTerms(values, SplitPlus(Get(config, "numerator_metric", <<>>)))
        d == SumTerms(values, SplitPlus(Get(config, "denominator_metric", <<>>)))
    IN IF d > 0 THEN NearestHundredth(value, n, d) ELSE value = 0

\* Won / (Won + Lost)
IsDefaultQuotient(value, values) ==
    LET d == values["won_leads"] + values["lost_leads"]
    IN IF d > 0 THEN NearestHundredth(value, values["won_leads"], d) ELSE value = 0

\* The conversion_rate configuration as stored when get_kpis reads it
StoredConversion == FindMetric("conversion_rate")

-----------------------------------------------------------------------------
\* Authentication and roles (backend/routes/auth.py)

\* db.user_sessions, by session_token: tok_old has expired, the user of
\* tok_gone is not in db.users.  expires_at is a day number
user_sessions ==
    [session_token \in {"tok_a", "tok_b", "tok_c", "tok_old", "tok_gone"} |->
        CASE session_token = "tok_a" -> [user_id |-> "user_a", expires_at |-> Today + 7]
          [] session_token = "tok_b" -> [user_id |-> "user_b", expires_at |-> Today]
          [] session_token = "tok_c" -> [user_id |-> "user_c", expires_at |-> Today + 7]
          [] session_token = "tok_old" -> [user_id |-> "user_a", expires_at |-> Today - 1]
          [] session_token = "tok_gone" -> [user_id |-> "user_z", expires_at |-> Today + 7]]

\* The session token of a request: none, or the cookie or bearer token
TokenInputs ==
    {None, Some("tok_a"), Some("tok_b"), Some("tok_c"), Some("tok_old"),
     Some("tok_gone"), Some("tok_none")}

\* get_current_user: 401 without a token, without its session, after its
\* expiry and without its user; else the user
get_current_user(session_token) ==
    IF session_token = None THEN [code |-> 401, user_id |-> None]
    ELSE IF session_token[1] \notin DOMAIN user_sessions
    THEN [code |-> 401, user_id |-> None]
    ELSE IF user_sessions[session_token[1]].expires_at < Today
    THEN [code |-> 401, user_id |-> None]
    ELSE IF user_sessions[session_token[1]].user_id \notin Callers
    THEN [code |-> 401, user_id |-> None]
    ELSE [code |-> 0, user_id |-> Some(user_sessions[session_token[1]].user_id)]

\* Variant of require_roles: the role is not compared
require_any_role(roles, session_token) == get_current_user(session_token)

\* require_roles(*roles): 403 for a user whose role is not among the roles
require_roles(roles, session_token) ==
    LET current_user == get_current_user(session_token)
    IN IF current_user.code # 0 THEN current_user
       ELSE IF RoleOf(current_user.user_id[1]) \notin roles
       THEN [code |-> 403, user_id |-> current_user.user_id]
       ELSE current_user

\* The operations on the configuration stores and the dependency of each:
\* get_metric_settings takes any user, the others an Admin
ConfigOperations ==
    {"get_metric_settings", "update_metric_setting", "create_custom_metric",
     "delete_metric", "create_qualification_question",
     "update_qualification_question", "delete_qualification_question",
     "update_qualification_settings"}

DependencyOf(operation, session_token) ==
    IF operation = "get_metric_settings" THEN get_current_user(session_token)
    ELSE require_roles({"Admin"}, session_token)

\* The number of requests the operation's handler has started so far
StartedOf(operation) ==
    CASE operation \in {"get_metric_settings", "update_metric_setting",
                        "create_custom_metric", "delete_metric"} -> Len(metric_requests)
      [] operation \in {"update_qualification_question",
                        "delete_qualification_question"} -> Len(question_requests)
      [] OTHER -> config_ops

\* The dependency of a request runs before its handler: a rejected request ends
\* here
Authenticate(operation, session_token) ==
    /\ Len(auth_calls) < MaxAuthCalls
    /\ auth_calls' =
         Append(auth_calls,
                [operation |-> operation,
                 session_token |-> session_token,
                 code |-> DependencyOf(operation, session_token).code,
                 user_id |-> DependencyOf(operation, session_token).user_id,
                 at |-> StartedOf(operation)])
    /\ UNCHANGED <<leads, lead_seq, qualVars, metricVars, kpi_request, lead_requests,
                   question_requests, followVars>>

\* The admitted calls of the operation whose handler has not started
Admitted(operation) ==
    { c \in 1..Len(auth_calls) :
        /\ auth_calls[c].operation = operation
        /\ auth_calls[c].code = 0
        /\ auth_calls[c].at = StartedOf(operation) }

\* Requests on the configuration stores, each behind its dependency
NextAuth ==
    \/ \E operation \in ConfigOperations, session_token \in TokenInputs :
            Authenticate(operation, session_token)
    \/ Admitted("get_metric_settings") # {} /\ GetSettingsFind
    \/ \E m \in 1..Len(metric_requests) : LoopTurn(m) /\ GetSettingsSeed(m)
    \/ \E m \in 1..Len(metric_requests) : GetSettingsFindSeeded(m)
    \/ \E m \in 1..Len(metric_requests) : GetSettingsReturn(m)
    \/ \E metric_id \in {"conversion_rate", "bihar_leads"} :
            /\ Admitted("update_metric_setting") # {}
            /\ UpdateMetricFindExisting(metric_id, [is_active |-> FALSE])
    \/ \E m \in 1..Len(metric_requests) : UpdateMetricUpdate(m)
    \/ \E m \in 1..Len(metric_requests) : UpdateMetricReturn(m)
    \/ \E body \in CustomMetricInputs :
            /\ Admitted("create_custom_metric") # {}
            /\ body.metric_id = "bihar_leads"
            /\ CreateMetricFindExisting(body)
    \/ \E m \in 1..Len(metric_requests) : CreateMetricFindMaxOrder(m)
    \/ \E m \in 1..Len(metric_requests) : CreateMetricInsert(m)
    \/ Admitted("delete_metric") # {} /\ DeleteMetricFindExisting("bihar_leads")
    \/ \E m \in 1..Len(metric_requests) : DeleteMetricDelete(m)
    \/ \E data \in QuestionInputs :
            /\ Admitted("create_qualification_question") # {}
            /\ data.is_required
            /\ CreateQuestion(data)
    \/ \E body \in QuestionUpdateInputs :
            /\ Admitted("update_qualification_question") # {}
            /\ update_qualification_question(<<1>>, body)
    \/ Admitted("delete_qualification_question") # {}
            /\ delete_qualification_question(<<1>>)
    \/ \E t \in ThresholdInputs, c \in Admitted("update_qualification_settings") :
            UpdateSettings(t, auth_calls[c].user_id[1])

SpecAuth == InitKpis /\ [][NextAuth]_vars

\* The configuration stores
configStores == <<metric_settings, qualification_questions, qualification_settings>>

\* The token names an unexpired session of a user
ValidSession(session_token) ==
    /\ session_token # None
    /\ session_token[1] \in DOMAIN user_sessions
    /\ user_sessions[session_token[1]].expires_at >= Today
    /\ user_sessions[session_token[1]].user_id \in Callers

IsAdminSession(session_token) ==
    /\ ValidSession(session_token)
    /\ RoleOf(user_sessions[session_token[1]].user_id) = "Admin"

\* The operation of a request of the metric store
OperationOfKind(kind) ==
    CASE kind = "get_settings" -> "get_metric_settings"
      [] kind = "update" -> "update_metric_setting"
      [] kind = "create" -> "create_custom_metric"
      [] kind = "delete" -> "delete_metric"
      [] OTHER -> "reset_metric_settings"

\* The request of the metric store that takes the step
SteppingMetricRequest ==
    CHOOSE m \in 1..Len(metric_requests') :
        IF m > Len(metric_requests) THEN TRUE
        ELSE metric_requests[m] # metric_requests'[m]

\* The admitted calls whose request takes this step
SteppingCalls ==
    IF metric_requests' # metric_requests
    THEN { c \in 1..Len(auth_calls) :
             /\ auth_calls[c].code = 0
             /\ auth_calls[c].at = SteppingMetricRequest - 1
             /\ auth_calls[c].operation =
                   OperationOfKind(metric_requests'[SteppingMetricRequest].kind) }
    ELSE { c \in 1..Len(auth_calls) :
             /\ auth_calls[c].code = 0
             /\ auth_calls[c].operation \notin
                   {"get_metric_settings", "update_metric_setting",
                    "create_custom_metric", "delete_metric"}
             /\ auth_calls[c].at = StartedOf(auth_calls[c].operation)
             /\ StartedOf(auth_calls[c].operation)' # StartedOf(auth_calls[c].operation) }

\* A request is rejected in this step: with 401 exactly when it presents no
\* valid session, else with 403, and every store stays as it is
RejectsProperly ==
    (Len(auth_calls') > Len(auth_calls) /\ auth_calls'[Len(auth_calls')].code # 0)
    => LET call == auth_calls'[Len(auth_calls')]
       IN /\ call.code = IF ValidSession(call.session_token) THEN 403 ELSE 401
          /\ UNCHANGED <<stores, configStores>>

\* A request with an invalid session, or a non-Admin request for an Admin
\* operation, is rejected
AdmitsProperly ==
    (Len(auth_calls') > Len(auth_calls) /\ auth_calls'[Len(auth_calls')].code = 0)
    => LET call == auth_calls'[Len(auth_calls')]
       IN /\ ValidSession(call.session_token)
          /\ call.operation = "get_metric_settings" \/ IsAdminSession(call.session_token)

-----------------------------------------------------------------------------
\* The activity trail of qualify_lead

\* The qualification values a lead document holds, as lead.get reads them
HeldScore(lead) == Get(lead, "qualification_score", 0)

HeldQualified(lead) ==
    IF "is_qualified" \in DOMAIN lead THEN Some(lead.is_qualified) ELSE None

\* C24: each successful qualify_lead call appends exactly one lead activity
\* entry for its lead; the entry's old qualification_score and is_qualified are
\* the values the lead held immediately before the call's write replaced them,
\* and its new values are the ones the call wrote.
C24_ActivityChainsOldToNew ==
    [][\A r \in Requests :
          /\ WriteStep(r)
             => /\ requests[r].old_score = HeldScore(leads[requests[r].lead_id])
                /\ requests[r].old_qualified = HeldQualified(leads[requests[r].lead_id])
          /\ RespondStep(r)
             => /\ Len(lead_activities') = Len(lead_activities) + 1
                /\ LET entry == lead_activities'[Len(lead_activities')]
                   IN /\ entry.lead_id = requests[r].lead_id
                      /\ entry.field_changes.qualification_score.old = requests[r].old_score
                      /\ entry.field_changes.is_qualified.old = requests[r].old_qualified
                      /\ entry.field_changes.qualification_score.new = requests[r].total_score
                      /\ entry.field_changes.is_qualified.new = requests[r].is_qualified]_vars

-----------------------------------------------------------------------------
\* The startup migration of metric configurations (backend/server.py) and
\* records without metric_type

MaxMigrateRequests == 3

\* metric_schema, lines 109-178, with "unit" among the keys
metric_schema ==
    [metric_id \in {"total_leads", "won_leads", "lost_leads", "open_leads",
                    "closed_leads", "hot_leads", "warm_leads", "cold_leads",
                    "avg_lead_age", "avg_closure_time", "conversion_rate"} |->
        CASE metric_id = "total_leads" ->
                [metric_type |-> "count", unit |-> "", field_name |-> None,
                 field_values |-> {}]
          [] metric_id = "won_leads" ->
                [metric_type |-> "count", unit |-> "",
                 field_name |-> Some("enquiry_stage"),
                 field_values |-> {"Closed-Won", "Order Booked"}]
          [] metric_id = "lost_leads" ->
                [metric_type |-> "count", unit |-> "",
                 field_name |-> Some("enquiry_stage"),
                 field_values |-> {"Closed-Lost", "Closed-Dropped"}]
          [] metric_id = "open_leads" ->
                [metric_type |-> "count", unit |-> "",
                 field_name |-> Some("enquiry_stage"),
                 field_values |-> {"Prospecting", "Qualified"}]
          [] metric_id = "closed_leads" ->
                [metric_type |-> "count", unit |-> "",
                 field_name |-> Some("enquiry_status"),
                 field_values |-> {"Closed", "Order Received"}]
          [] metric_id = "hot_leads" ->
                [metric_type |-> "count", unit |-> "",
                 field_name |-> Some("enquiry_type"), field_values |-> {"Hot"}]
          [] metric_id = "warm_leads" ->
                [metric_type |-> "count", unit |-> "",
                 field_name |-> Some("enquiry_type"), field_values |-> {"Warm"}]
          [] metric_id = "cold_leads" ->
                [metric_type |-> "count", unit |-> "",
                 field_name |-> Some("enquiry_type"), field_values |-> {"Cold"}]
          [] metric_id = "avg_lead_age" ->
                [metric_type |-> "calculated", unit |-> "days",
                 start_date_field |-> "enquiry_date", end_date_field |-> "today",
                 filter_stages |-> {"Prospecting", "Qualified"}]
          [] metric_id = "avg_closure_time" ->
                [metric_type |-> "calculated", unit |-> "days",
                 start_date_field |-> "enquiry_date",
                 end_date_field |-> "last_followup_date",
                 filter_stages |-> {"Closed-Won", "Order Booked", "Closed-Lost",
                                    "Closed-Dropped"}]
          [] OTHER ->
                [metric_type |-> "formula", unit |-> "%",
                 numerator_metric |-> <<"won_leads">>,
                 denominator_metric |-> <<"won_leads", "+", "lost_leads">>]]

\* metric.get(field) is truthy: the field is present and is not "", [] or None
IsSet(metric, field) ==
    /\ field \in DOMAIN metric
    /\ IF field \in {"filter_stages", "field_values"} THEN metric[field] # {}
       ELSE IF field \in {"start_date_field", "end_date_field", "metric_type"}
       THEN metric[field] # ""
       ELSE metric[field] # <<>>

\* Lines 190-199: the type the migration gives a record without metric_type
MigratedType(metric) ==
    IF metric.metric_id \in DOMAIN metric_schema
    THEN metric_schema[metric.metric_id].metric_type
    ELSE IF IsSet(metric, "numerator_metric") \/ IsSet(metric, "denominator_metric")
    THEN "formula"
    ELSE IF IsSet(metric, "start_date_field") \/ IsSet(metric, "end_date_field")
    THEN "calculated"
    ELSE "count"

\* Lines 189-199
TypeUpdates(metric) ==
    IF IsSet(metric, "metric_type") THEN <<>>
    ELSE [k \in {"metric_type"} |-> MigratedType(metric)]

\* Lines 201-206: the schema's value for each field the record lacks or holds
\* as None (of the fields modelled, only field_name is ever None)
SchemaUpdates(metric) ==
    IF metric.metric_id \notin DOMAIN metric_schema THEN <<>>
    ELSE LET schema == metric_schema[metric.metric_id]
         IN [field \in { f \in DOMAIN schema :
                            \/ f \notin DOMAIN metric
                            \/ f = "field_name" /\ metric[f] = None } |->
                schema[field]]

\* Lines 208-215 and 217-222: the fallback parameters of a calculated and of a
\* formula metric
FallbackUpdates(metric, updates) ==
    LET Lacks(field) == ~IsSet(metric, field) /\ field \notin DOMAIN updates
        fallback == [start_date_field |-> "enquiry_date", end_date_field |-> "today",
                     filter_stages |-> {}, numerator_metric |-> <<"won_leads">>,
                     denominator_metric |-> <<"total_leads">>]
        fields == IF Get(metric, "metric_type", "") = "calculated"
                     \/ Get(updates, "metric_type", "") = "calculated"
                  THEN {"start_date_field", "end_date_field", "filter_stages"}
                  ELSE IF Get(metric, "metric_type", "") = "formula"
                          \/ Get(updates, "metric_type", "") = "formula"
                  THEN {"numerator_metric", "denominator_metric"}
                  ELSE {}
    IN [field \in { f \in fields : Lacks(f) } |-> fallback[field]]

\* Lines 224-232: the unit of a record without one
UnitUpdates(metric, updates) ==
    IF "unit" \in DOMAIN metric \/ "unit" \in DOMAIN updates THEN <<>>
    ELSE LET metric_type == IF "metric_type" \in DOMAIN updates
                            THEN updates.metric_type
                            ELSE Get(metric, "metric_type", "count")
         IN [k \in {"unit"} |-> IF metric_type = "formula" THEN "%"
                                ELSE IF metric_type = "calculated" THEN "days"
                                ELSE ""]

\* The updates dict of lines 187-232
MigrationUpdates(metric) ==
    LET typed == SetFields(TypeUpdates(metric), SchemaUpdates(metric))
        filled == SetFields(typed, FallbackUpdates(metric, typed))
    IN SetFields(filled, UnitUpdates(metric, filled))

\* The first record from position i on that the loop updates: the loop reaches
\* it without an await
NextMigrated(existing_metrics, i) ==
    LET turns == { j \in i..Len(existing_metrics) :
                      DOMAIN MigrationUpdates(existing_metrics[j]) # {} }
    IN IF turns = {} THEN Len(existing_metrics) + 1
       ELSE CHOOSE j \in turns : \A other \in turns : j <= other

\* The server is at rest: every request has been answered
AtRest ==
    /\ KpiRequestIdle
    /\ \A m \in 1..Len(metric_requests) : metric_requests[m].pc = "done"

\* The startup's migration has run before the first request is served, unless
\* it finds no record to update
Started ==
    \/ metric_requests # <<>>
    \/ kpi_request # None
    \/ lead_seq > 0
    \/ NextMigrated(metric_settings, 1) > Len(metric_settings)

\* Stored configurations written before metric_type existed
LegacyMetrics ==
    { <<>>,
      << [metric_id |-> "close_ratio", field_name |-> None, field_values |-> {},
          is_active |-> TRUE, is_custom |-> TRUE, show_on_dashboard |-> TRUE,
          dashboard_order |-> 1, numerator_metric |-> <<"won_leads">>,
          denominator_metric |-> <<"total_leads">>] >>,
      << [metric_id |-> "avg_closure_time", field_name |-> None, field_values |-> {},
          is_active |-> TRUE, is_custom |-> FALSE, show_on_dashboard |-> TRUE,
          dashboard_order |-> 9],
         [metric_id |-> "pipeline_age", field_name |-> None, field_values |-> {},
          is_active |-> TRUE, is_custom |-> TRUE, show_on_dashboard |-> TRUE,
          dashboard_order |-> 2, start_date_field |-> "enquiry_date"] >> }

\* MetricUpdate bodies that give a custom metric a formula
CustomFormulaInputs ==
    { [numerator_metric |-> <<"won_leads">>, denominator_metric |-> <<"total_leads">>] }

\* startup, lines 250-252, and migrate_metric_settings, line 183
MigrateFind ==
    /\ AtRest
    /\ Len(metric_requests) < MaxMigrateRequests
    /\ LET existing_metrics == ToList(metric_settings, MetricListLimit)
           i == NextMigrated(existing_metrics, 1)
       IN metric_requests' =
            Append(metric_requests,
                   [kind |-> "migrate",
                    existing_metrics |-> existing_metrics,
                    i |-> i,
                    pc |-> IF i > Len(existing_metrics) THEN "done" ELSE "update",
                    response |-> NoResponse])
    /\ UNCHANGED <<leads, lead_seq, qualVars, metric_settings, kpi, otherVars>>

\* migrate_metric_settings, lines 234-239: update_one changes the first
\* document with the metric_id
MigrateUpdate(m) ==
    /\ metric_requests[m].kind = "migrate"
    /\ metric_requests[m].pc = "update"
    /\ LET metric == metric_requests[m].existing_metrics[metric_requests[m].i]
           hits == { i \in 1..Len(metric_settings) :
                        metric_settings[i].metric_id = metric.metric_id }
           i == NextMigrated(metric_requests[m].existing_metrics,
                             metric_requests[m].i + 1)
       IN /\ metric_settings' =
                [j \in 1..Len(metric_settings) |->
                    IF j \in hits /\ \A other \in hits : j <= other
                    THEN SetFields(metric_settings[j], MigrationUpdates(metric))
                    ELSE metric_settings[j]]
          /\ metric_requests' =
                [metric_requests EXCEPT
                    ![m].i = i,
                    ![m].pc = IF i > Len(metric_requests[m].existing_metrics)
                              THEN "done" ELSE "update"]
    /\ UNCHANGED <<leads, lead_seq, qualVars, kpi, otherVars>>

InitLegacy ==
    /\ leads = <<>>
    /\ lead_seq = 0
    /\ qualification_questions = <<>>
    /\ qualification_settings = None
    /\ lead_activities = <<>>
    /\ requests = <<>>
    /\ config_ops = 0
    /\ metric_settings \in LegacyMetrics
    /\ metric_requests = <<>>
    /\ kpi = <<>>
    /\ kpi_request = <<>>
    /\ lead_requests = <<>>
    /\ question_requests = <<>>
    /\ auth_calls = <<>>
    /\ lead_followups = <<>>
    /\ users = InitialUsers
    /\ user_requests = <<>>

\* The server migrates at startup and at each restart, and serves one request
\* at a time
NextLegacy ==
    \/ MigrateFind
    \/ \E m \in 1..Len(metric_requests) : MigrateUpdate(m)
    \/ \E data \in FormulaLeadInputs :
            Started /\ AtRest /\ lead_seq < MaxEditLeads /\ CreateLead(data)
    \/ \E body \in CustomMetricInputs :
            Started /\ AtRest /\ body.metric_id = "bihar_leads"
            /\ CreateMetricFindExisting(body)
    \/ \E m \in 1..Len(metric_requests) : CreateMetricFindMaxOrder(m)
    \/ \E m \in 1..Len(metric_requests) : CreateMetricInsert(m)
    \/ \E body \in CustomFormulaInputs :
            Started /\ AtRest /\ UpdateMetricFindExisting("bihar_leads", body)
    \/ \E m \in 1..Len(metric_requests) : UpdateMetricUpdate(m)
    \/ \E m \in 1..Len(metric_requests) : UpdateMetricReturn(m)
    \/ \E params \in FormulaKpiParams :
            Started /\ AtRest /\ KpiCountTotal(params)
    \/ KpiGetConfig
    \/ KpiCount
    \/ KpiCountQualified
    \/ KpiCountFaulty
    \/ KpiGetConversionConfig
    \/ KpiAvgLeadAge
    \/ KpiAvgClosure
    \/ KpiSegments
    \/ KpiStages
    \/ KpiFindMetrics
    \/ KpiDashboardTurn
    \/ KpiReturn

SpecLegacy == InitLegacy /\ [][NextLegacy]_vars

\* The type the parameters of a record stand for
InferredType(metric) ==
    IF IsSet(metric, "numerator_metric") \/ IsSet(metric, "denominator_metric")
    THEN "formula"
    ELSE IF IsSet(metric, "start_date_field") \/ IsSet(metric, "end_date_field")
    THEN "calculated"
    ELSE "count"

\* Request m of the migration updates a record without metric_type in this step
MigratesUntyped(m) ==
    /\ metric_requests[m].kind = "migrate"
    /\ metric_requests[m].pc = "update"
    /\ metric_requests'[m].i # metric_requests[m].i
    /\ ~IsSet(metric_requests[m].existing_metrics[metric_requests[m].i], "metric_type")

\* get_kpis evaluates a record without metric_type in this step
EvaluatesUntyped ==
    /\ kpi_request # None
    /\ kpi_request[1].pc = "dashboard"
    /\ kpi_request' # None
    /\ Len(kpi_request'[1].dashboard_metrics) = Len(kpi_request[1].dashboard_metrics) + 1
    /\ ~IsSet(kpi_request[1].all_metrics[kpi_request[1].i], "metric_type")

\* C25: a stored metric record without metric_type is given the type inferred
\* from its parameters ('formula' if numerator_metric or denominator_metric is
\* set, else 'calculated' if start_date_field or end_date_field is set, else
\* 'count') by the startup migration, and get_kpis evaluates it as a metric of
\* that type.
C25_InferredTypeIsUsed ==
    [][/\ \A m \in 1..Len(metric_requests) :
            MigratesUntyped(m)
            => LET metric == metric_requests[m].existing_metrics[metric_requests[m].i]
               IN \A j \in 1..Len(metric_settings') :
                     metric_settings'[j].metric_id = metric.metric_id
                     => Get(metric_settings'[j], "metric_type", "") = InferredType(metric)
       /\ EvaluatesUntyped
          => LET r == kpi_request[1]
                 metric == r.all_metrics[r.i]
                 typed == SetFields(metric, [k \in {"metric_type"} |-> InferredType(metric)])
                 entry == kpi_request'[1].dashboard_metrics[Len(r.dashboard_metrics) + 1]
             IN /\ entry.metric_type = InferredType(metric)
                /\ entry.value = DashboardValue(r, typed)]_vars

-----------------------------------------------------------------------------
\* get_kpis while leads are created, deleted and qualified

MaxSnapshotLeads == 2

SnapshotLeadInputs ==
    { [state |-> Some("Bihar"), enquiry_stage |-> Some("Closed-Won"),
       enquiry_date |-> Some(1)] }

\* Every count of get_kpis is a store access of its own, and the other
\* requests run between them
NextSnapshot ==
    \/ \E data \in SnapshotLeadInputs : lead_seq < MaxSnapshotLeads /\ CreateLead(data)
    \/ \E id \in 1..MaxSnapshotLeads : DeleteLead(id)
    \/ \E id \in 1..MaxSnapshotLeads :
            requests = <<>> /\ QualifyFindLead(id, <<>>, "user_c")
    \/ \E r \in 1..Len(requests) : QualifyScore(r)
    \/ \E r \in 1..Len(requests) : QualifyClassify(r)
    \/ \E r \in 1..Len(requests) : QualifyUpdateLead(r)
    \/ \E r \in 1..Len(requests) : QualifyLogActivity(r)
    \/ \E params \in FormulaKpiParams : kpi_request = None /\ KpiCountTotal(params)
    \/ KpiGetConfig
    \/ KpiCount
    \/ KpiCountQualified
    \/ KpiCountFaulty
    \/ KpiGetConversionConfig
    \/ KpiAvgLeadAge
    \/ KpiAvgClosure
    \/ KpiSegments
    \/ KpiStages
    \/ KpiFindMetrics
    \/ KpiDashboardTurn
    \/ KpiReturn

SpecSnapshot == InitSeeded /\ [][NextSnapshot]_vars

\* C26: in every get_kpis response, also when leads are created, deleted or
\* qualified while the request is served, qualified_leads + faulty_leads is at
\* most total_leads, the Not Evaluated count is not negative, and each
\* configurable count is at most total_leads.
C26_CountsOfOneSnapshot ==
    (kpi_request # None /\ kpi_request[1].pc = "done")
    => LET response == kpi_request[1].response
       IN /\ response.qualified_leads + response.faulty_leads <= response.total_leads
          /\ response.not_evaluated >= 0
          /\ \A name \in DOMAIN response.counts :
                response.counts[name] <= response.total_leads

-----------------------------------------------------------------------------
\* Excel upload (backend/routes/upload.py) and follow-ups
\* (backend/routes/lead_activity.py)

MaxEvaluationLeads == 2

\* COLUMN_MAPPING of upload.py, for the columns of the files below
COLUMN_MAPPING ==
    [excel_col \in {"Enquiry No", "State", "Enquiry Stage"} |->
        CASE excel_col = "Enquiry No" -> "enquiry_no"
          [] excel_col = "State" -> "state"
          [] OTHER -> "enquiry_stage"]

\* Uploaded files: the name, the columns and the rows (column -> cell, an empty
\* cell is None).  "Is Qualified" and "Qualification Score" are columns the
\* mapping does not know
ExcelFiles ==
    { [filename |-> "leads.pdf", columns |-> {"State"},
       rows |-> << [c \in {"State"} |-> Some("Goa")] >>],
      [filename |-> "leads.xlsx", columns |-> {"State"}, rows |-> << >>],
      [filename |-> "leads.xlsx",
       columns |-> {"Enquiry No", "State", "Is Qualified"},
       rows |-> << [c \in {"Enquiry No", "State", "Is Qualified"} |->
                        CASE c = "Enquiry No" -> Some("E1")
                          [] c = "State" -> Some("Goa")
                          [] OTHER -> Some("True")] >>],
      [filename |-> "leads.xls",
       columns |-> {"Enquiry No", "Enquiry Stage", "Qualification Score"},
       rows |-> << [c \in {"Enquiry No", "Enquiry Stage", "Qualification Score"} |->
                        CASE c = "Enquiry No" -> None
                          [] c = "Enquiry Stage" -> Some("Closed-Won")
                          [] OTHER -> Some("7")] >>] }

\* lead_data of a row, lines 272-307: the mapped columns of the file
LeadData(file, row) ==
    [db_field \in { COLUMN_MAPPING[c] : c \in file.columns \cap DOMAIN COLUMN_MAPPING } |->
        LET c == CHOOSE col \in file.columns \cap DOMAIN COLUMN_MAPPING :
                    COLUMN_MAPPING[col] = db_field
        IN row[c]]

\* The position of the loop at row i: a row with an enquiry_no is looked up
\* first, a row without one is inserted
RowPc(file, i) ==
    IF i > Len(file.rows) THEN "done"
    ELSE IF Truthy(Get(LeadData(file, file.rows[i]), "enquiry_no", None))
    THEN "find_row" ELSE "insert_row"

\* The request after row i
AfterRow(req) ==
    [req EXCEPT !.i = req.i + 1,
                !.pc = RowPc(req.file, req.i + 1),
                !.response = IF req.i + 1 > Len(req.file.rows) THEN [code |-> 200]
                             ELSE req.response]

\* upload_leads, lines 254-268: 400 for a file that is not Excel or is empty
upload_leads(current_user, file) ==
    /\ Len(lead_requests) < MaxLeadRequests
    /\ LET excel == file.filename \in {"leads.xlsx", "leads.xls"}
       IN lead_requests' =
            Append(lead_requests,
                   IF excel /\ file.rows # <<>>
                   THEN [kind |-> "upload_leads", user_id |-> current_user,
                         pc |-> RowPc(file, 1), i |-> 1, file |-> file,
                         response |-> [code |-> 0]]
                   ELSE LeadOutcome("upload_leads", current_user, 400))
    /\ UNCHANGED <<leads, lead_seq, leadRestVars>>

\* Line 313: find_one({"enquiry_no": ...})
UploadLeadsFind(m) ==
    /\ lead_requests[m].kind = "upload_leads"
    /\ lead_requests[m].pc = "find_row"
    /\ LET req == lead_requests[m]
           enquiry_no == LeadData(req.file, req.file.rows[req.i]).enquiry_no
           existing == \E id \in DOMAIN leads :
                            Get(leads[id], "enquiry_no", None) = enquiry_no
       IN lead_requests' =
            [lead_requests EXCEPT ![m].pc = IF existing THEN "update_row" ELSE "insert_row"]
    /\ UNCHANGED <<leads, lead_seq, leadRestVars>>

\* Lines 316-322: update_one({"enquiry_no": ...}, {"$set": lead_data}) changes
\* the first lead with the number
UploadLeadsUpdate(m) ==
    /\ lead_requests[m].kind = "upload_leads"
    /\ lead_requests[m].pc = "update_row"
    /\ LET req == lead_requests[m]
           lead_data == LeadData(req.file, req.file.rows[req.i])
           hits == { id \in DOMAIN leads :
                        Get(leads[id], "enquiry_no", None) = lead_data.enquiry_no }
       IN leads' = [id \in DOMAIN leads |->
                        IF id \in hits /\ \A other \in hits : id <= other
                        THEN SetFields(leads[id], lead_data)
                        ELSE leads[id]]
    /\ lead_requests' = [lead_requests EXCEPT ![m] = AfterRow(lead_requests[m])]
    /\ UNCHANGED <<lead_seq, leadRestVars>>

\* Lines 324-342: insert_one of the lead_doc, built without the Lead model
UploadLeadsInsert(m) ==
    /\ lead_requests[m].kind = "upload_leads"
    /\ lead_requests[m].pc = "insert_row"
    /\ lead_seq < MaxLeadSeq
    /\ LET req == lead_requests[m]
           lead_doc == SetFields([lead_id |-> lead_seq + 1],
                                 LeadData(req.file, req.file.rows[req.i]))
       IN leads' = [id \in (DOMAIN leads) \cup {lead_seq + 1} |->
                        IF id = lead_seq + 1 THEN lead_doc ELSE leads[id]]
    /\ lead_seq' = lead_seq + 1
    /\ lead_requests' = [lead_requests EXCEPT ![m] = AfterRow(lead_requests[m])]
    /\ UNCHANGED leadRestVars

\* Request bodies of add_lead_followup: followup_date is a day number
FollowupInputs == { [followup_date |-> 3] }

\* add_lead_followup, lines 64-67: 404 without the lead
FollowupFind(current_user, lead_id, body) ==
    /\ Len(lead_requests) < MaxLeadRequests
    /\ lead_requests' =
         Append(lead_requests,
                IF lead_id \in DOMAIN leads
                THEN [kind |-> "followup", user_id |-> current_user,
                      pc |-> "insert_followup", lead_id |-> lead_id, body |-> body,
                      lead |-> leads[lead_id], response |-> [code |-> 0]]
                ELSE LeadOutcome("followup", current_user, 404))
    /\ UNCHANGED <<leads, lead_seq, leadRestVars>>

\* Lines 69-81: the FollowUp record is inserted
FollowupInsert(m) ==
    /\ lead_requests[m].kind = "followup"
    /\ lead_requests[m].pc = "insert_followup"
    /\ lead_followups' =
            Append(lead_followups,
                   [lead_id |-> lead_requests[m].lead_id,
                    user_id |-> lead_requests[m].user_id,
                    followup_date |-> lead_requests[m].body.followup_date])
    /\ lead_requests' = [lead_requests EXCEPT ![m].pc = "update_lead"]
    /\ UNCHANGED <<leads, lead_seq, qualVars, metricVars, kpi_request,
                   question_requests, auth_calls, users, user_requests>>

\* lead.get("no_of_followups") or 0
FollowupsOf(lead) ==
    IF "no_of_followups" \in DOMAIN lead /\ lead.no_of_followups # None
    THEN lead.no_of_followups[1] ELSE 0

\* Lines 84-91: update_one sets last_followup_date and no_of_followups from the
\* lead that was read at the start
FollowupUpdateLead(m) ==
    /\ lead_requests[m].kind = "followup"
    /\ lead_requests[m].pc = "update_lead"
    /\ LET req == lead_requests[m]
       IN leads' = [id \in DOMAIN leads |->
                        IF id = req.lead_id
                        THEN SetFields(leads[id],
                                [last_followup_date |-> Some(req.body.followup_date),
                                 no_of_followups |-> Some(FollowupsOf(req.lead) + 1)])
                        ELSE leads[id]]
    /\ lead_requests' = [lead_requests EXCEPT ![m].pc = "insert_activity"]
    /\ UNCHANGED <<lead_seq, leadRestVars>>

\* Lines 93-105: the activity entry is inserted and the response returned
FollowupLogActivity(m) ==
    /\ lead_requests[m].kind = "followup"
    /\ lead_requests[m].pc = "insert_activity"
    /\ lead_activities' =
            Append(lead_activities,
                   [lead_id |-> lead_requests[m].lead_id,
                    user_id |-> lead_requests[m].user_id,
                    action |-> "followup_added"])
    /\ lead_requests' = [lead_requests EXCEPT ![m].pc = "done",
                                              ![m].response = [code |-> 200]]
    /\ UNCHANGED <<leads, lead_seq, qualification_questions, qualification_settings,
                   requests, config_ops, metricVars, kpi_request, question_requests,
                   auth_calls, followVars>>

\* LeadCreate and LeadUpdate bodies; is_qualified and qualification_score are
\* keys the two models do not have
EvaluationLeadInputs ==
    { [state |-> Some("Bihar")] }

EvaluationUpdateInputs ==
    { [state |-> Some("Goa"), is_qualified |-> FALSE],
      [enquiry_stage |-> Some("Closed-Won"), qualification_score |-> 7] }

NextEvaluation ==
    \/ \E data \in EvaluationLeadInputs :
            lead_seq < MaxEvaluationLeads /\ CreateLead(data)
    \/ \E id \in 1..MaxEvaluationLeads, data \in EvaluationUpdateInputs :
            UpdateLeadFind("user_c", id, data)
    \/ \E m \in 1..Len(lead_requests) : UpdateLeadUpdate(m)
    \/ \E file \in ExcelFiles : upload_leads("user_c", file)
    \/ \E m \in 1..Len(lead_requests) : UploadLeadsFind(m)
    \/ \E m \in 1..Len(lead_requests) : UploadLeadsUpdate(m)
    \/ \E m \in 1..Len(lead_requests) : UploadLeadsInsert(m)
    \/ \E id \in 1..MaxEvaluationLeads, body \in FollowupInputs :
            FollowupFind("user_c", id, body)
    \/ \E m \in 1..Len(lead_requests) : FollowupInsert(m)
    \/ \E m \in 1..Len(lead_requests) : FollowupUpdateLead(m)
    \/ \E m \in 1..Len(lead_requests) : FollowupLogActivity(m)
    \/ \E t \in ThresholdInputs : config_ops = 0 /\ UpdateSettings(t, "user_a")
    \/ \E id \in 1..MaxEvaluationLeads :
            requests = <<>> /\ QualifyFindLead(id, <<>>, "user_c")
    \/ \E r \in 1..Len(requests) : QualifyScore(r)
    \/ \E r \in 1..Len(requests) : QualifyClassify(r)
    \/ \E r \in 1..Len(requests) : QualifyUpdateLead(r)
    \/ \E r \in 1..Len(requests) : QualifyLogActivity(r)

SpecEvaluation == InitStore /\ [][NextEvaluation]_vars

\* The three classes of the qualification_distribution of get_kpis
IsQualifiedLead(lead) == "is_qualified" \in DOMAIN lead /\ lead.is_qualified = TRUE

IsFaultyLead(lead) ==
    /\ "is_qualified" \in DOMAIN lead
    /\ lead.is_qualified = FALSE
    /\ "qualification_score" \in DOMAIN lead

IsNotEvaluatedLead(lead) ==
    "is_qualified" \notin DOMAIN lead /\ "qualification_score" \notin DOMAIN lead

\* C27: in every reachable state, after any sequence of create_lead,
\* update_lead, Excel upload, add_lead_followup and qualify_lead operations, a
\* lead has a stored qualification_score if and only if it has a stored boolean
\* is_qualified, and so is exactly one of Qualified, Faulty and Not Evaluated.
C27_ScoreIffQualified ==
    \A id \in DOMAIN leads :
        /\ ("qualification_score" \in DOMAIN leads[id])
           <=> ("is_qualified" \in DOMAIN leads[id]
                /\ leads[id].is_qualified \in BOOLEAN)
        /\ Cardinality({ class \in {"Qualified", "Faulty", "Not Evaluated"} :
                            CASE class = "Qualified" -> IsQualifiedLead(leads[id])
                              [] class = "Faulty" -> IsFaultyLead(leads[id])
                              [] OTHER -> IsNotEvaluatedLead(leads[id]) }) = 1

\* A qualified lead that an upload and a follow-up have then changed, next to a
\* lead that was never evaluated, after an update_lead whose body named
\* is_qualified
C27_Witness ==
    /\ \E id \in DOMAIN leads :
          /\ IsQualifiedLead(leads[id]) \/ IsFaultyLead(leads[id])
          /\ Get(leads[id], "state", None) = Some("Goa")
          /\ FollowupsOf(leads[id]) = 1
    /\ \E id \in DOMAIN leads : IsNotEvaluatedLead(leads[id])
    /\ \E m \in 1..Len(lead_requests) :
          /\ lead_requests[m].kind \in {"update_lead", "upload_leads"}
          /\ lead_requests[m].response.code = 200

-----------------------------------------------------------------------------
\* The two conversion rates of one get_kpis response

MaxConversionLeads == 2

\* MetricUpdate bodies for conversion_rate: a term outside metric_values, an
\* empty numerator and a formula over the counts
ConversionEditInputs ==
    { [numerator_metric |-> <<"qualified_leads">>,
       denominator_metric |-> <<"total_leads">>],
      [numerator_metric |-> <<>>],
      [numerator_metric |-> <<"lost_leads">>, denominator_metric |-> <<"total_leads">>] }

\* The configuration and the leads change between get_kpis requests only
NextConversion ==
    \/ \E data \in FormulaLeadInputs :
            KpiRequestIdle /\ lead_seq < MaxConversionLeads /\ CreateLead(data)
    \/ \E id \in 1..MaxConversionLeads :
            KpiRequestIdle /\ requests = <<>> /\ QualifyFindLead(id, <<>>, "user_c")
    \/ \E r \in 1..Len(requests) : QualifyScore(r)
    \/ \E r \in 1..Len(requests) : QualifyClassify(r)
    \/ \E r \in 1..Len(requests) : QualifyUpdateLead(r)
    \/ \E r \in 1..Len(requests) : QualifyLogActivity(r)
    \/ \E body \in ConversionEditInputs :
            KpiRequestIdle /\ metric_requests = <<>> /\ AtRest
            /\ UpdateMetricFindExisting("conversion_rate", body)
    \/ \E m \in 1..Len(metric_requests) : UpdateMetricUpdate(m)
    \/ \E m \in 1..Len(metric_requests) : UpdateMetricReturn(m)
    \/ \E params \in FormulaKpiParams :
            /\ \A r \in 1..Len(requests) : requests[r].pc = "done"
            /\ AtRest
            /\ KpiCountTotal(params)
    \/ KpiGetConfig
    \/ KpiCount
    \/ KpiCountQualified
    \/ KpiCountFaulty
    \/ KpiGetConversionConfig
    \/ KpiAvgLeadAge
    \/ KpiAvgClosure
    \/ KpiSegments
    \/ KpiStages
    \/ KpiFindMetrics
    \/ KpiDashboardTurn
    \/ KpiReturn

SpecConversion == InitSeeded /\ [][NextConversion]_vars

\* C28: in one get_kpis response the top-level conversion_rate equals the value
\* of the dashboard_metrics entry with metric_id conversion_rate, when that
\* metric is active, shown on the dashboard and of type formula, for every
\* numerator_metric / denominator_metric configuration an admin can store.
C28_ConversionRatesAgree ==
    (kpi_request # None /\ kpi_request[1].pc = "done")
    => LET response == kpi_request[1].response
       IN \A i \in 1..Len(response.dashboard_metrics) :
             (/\ response.dashboard_metrics[i].metric_id = "conversion_rate"
              /\ response.dashboard_metrics[i].metric_type = "formula")
             => response.dashboard_metrics[i].value = response.conversion_rate

-----------------------------------------------------------------------------
\* Concurrent add_lead_followup requests

MaxFollowupLeads == 2

NextFollowups ==
    \/ \E data \in EvaluationLeadInputs :
            lead_seq < MaxFollowupLeads /\ CreateLead(data)
    \/ \E user \in Callers, id \in 1..MaxFollowupLeads, body \in FollowupInputs :
            FollowupFind(user, id, body)
    \/ \E m \in 1..Len(lead_requests) : FollowupInsert(m)
    \/ \E m \in 1..Len(lead_requests) : FollowupUpdateLead(m)
    \/ \E m \in 1..Len(lead_requests) : FollowupLogActivity(m)

SpecFollowups == InitStore /\ [][NextFollowups]_vars

\* The successful add_lead_followup calls on a lead
SuccessfulFollowups(lead_id) ==
    { m \in 1..Len(lead_requests) :
        /\ lead_requests[m].kind = "followup"
        /\ lead_requests[m].response.code = 200
        /\ lead_requests[m].lead_id = lead_id }

\* The follow-up records of a lead
FollowupRecords(lead_id) ==
    { k \in 1..Len(lead_followups) : lead_followups[k].lead_id = lead_id }

\* C29: after n successful add_lead_followup calls on a lead, in any
\* interleaving, the lead's no_of_followups is its initial value (0, the field
\* being absent from a new lead) plus n, and exactly n follow-up records exist
\* for the lead.
C29_NoFollowupLost ==
    (\A m \in 1..Len(lead_requests) : lead_requests[m].pc = "done")
    => \A id \in DOMAIN leads :
          /\ FollowupsOf(leads[id]) = Cardinality(SuccessfulFollowups(id))
          /\ Cardinality(FollowupRecords(id)) = Cardinality(SuccessfulFollowups(id))

-----------------------------------------------------------------------------
\* User management (backend/routes/admin.py)

MaxUserRequests == 3

\* The values of UserRole
UserRoles == {"Admin", "Manager", "Employee"}

\* get_current_user over db.users: 401 without a token, without its session,
\* after its expiry and without its user; else the user document.  is_active
\* is not read
FindCurrentUser(session_token) ==
    IF session_token = None THEN [code |-> 401]
    ELSE IF session_token[1] \notin DOMAIN user_sessions THEN [code |-> 401]
    ELSE IF user_sessions[session_token[1]].expires_at < Today THEN [code |-> 401]
    ELSE IF user_sessions[session_token[1]].user_id \notin DOMAIN users
    THEN [code |-> 401]
    ELSE [code |-> 0, user |-> users[user_sessions[session_token[1]].user_id]]

\* require_roles(*roles) over db.users: 403 for a user whose role is not among
\* the roles
RequireRoles(roles, session_token) ==
    LET current_user == FindCurrentUser(session_token)
    IN IF current_user.code # 0 THEN current_user
       ELSE IF current_user.user.role \notin roles THEN [code |-> 403]
       ELSE current_user

\* Session tokens, target users, roles and is_active values of the requests
UserTokenInputs == {Some("tok_a"), Some("tok_b")}

UserIdInputs == {"user_a", "user_b", "user_z"}

RoleInputs == {"Admin", "Employee", "Owner"}

\* A request on a user after its dependency and its checks
UserRequest(kind, session_token, user_id, value, code) ==
    [kind |-> kind, session_token |-> session_token, user_id |-> user_id,
     value |-> value, pc |-> IF code = 0 THEN "update" ELSE "done",
     response |-> [code |-> code]]

\* update_user_role, lines 32-46: the dependency, 400 for a value that is not a
\* role and 400 for a demotion of the caller
UpdateUserRoleStart(session_token, user_id, new_role) ==
    /\ Len(user_requests) < MaxUserRequests
    /\ LET current_user == RequireRoles({"Admin"}, session_token)
           code == IF current_user.code # 0 THEN current_user.code
                   ELSE IF new_role \notin UserRoles THEN 400
                   ELSE IF user_id = current_user.user.user_id /\ new_role # "Admin"
                   THEN 400
                   ELSE 0
       IN user_requests' =
            Append(user_requests,
                   UserRequest("update_user_role", session_token, user_id, new_role, code))
    /\ UNCHANGED <<leads, lead_seq, qualVars, metricVars, kpi_request, lead_requests,
                   question_requests, auth_calls, lead_followups, users>>

\* update_user_status, lines 73-86: the dependency and 400 for a deactivation
\* of the caller
UpdateUserStatusStart(session_token, user_id, is_active) ==
    /\ Len(user_requests) < MaxUserRequests
    /\ LET current_user == RequireRoles({"Admin"}, session_token)
           code == IF current_user.code # 0 THEN current_user.code
                   ELSE IF user_id = current_user.user.user_id /\ ~is_active THEN 400
                   ELSE 0
       IN user_requests' =
            Append(user_requests,
                   UserRequest("update_user_status", session_token, user_id, is_active,
                               code))
    /\ UNCHANGED <<leads, lead_seq, qualVars, metricVars, kpi_request, lead_requests,
                   question_requests, auth_calls, lead_followups, users>>

\* Lines 48-54 and 88-94: update_one({"user_id": user_id}, {"$set": ...}); the
\* fresh updated_at makes modified_count 1 whenever the user exists, and 404
\* is returned without the user
UserUpdate(m) ==
    /\ user_requests[m].pc = "update"
    /\ LET req == user_requests[m]
           found == req.user_id \in DOMAIN users
       IN /\ users' =
                [id \in DOMAIN users |->
                    IF id # req.user_id THEN users[id]
                    ELSE IF req.kind = "update_user_role"
                    THEN [users[id] EXCEPT !.role = req.value]
                    ELSE [users[id] EXCEPT !.is_active = req.value]]
          /\ user_requests' =
                [user_requests EXCEPT ![m].pc = "done",
                                      ![m].response = [code |-> IF found THEN 200 ELSE 404]]
    /\ UNCHANGED <<leads, lead_seq, qualVars, metricVars, kpi_request, lead_requests,
                   question_requests, auth_calls, lead_followups>>

NextUsers ==
    \/ \E session_token \in UserTokenInputs, user_id \in UserIdInputs, role \in RoleInputs :
            UpdateUserRoleStart(session_token, user_id, role)
    \/ \E session_token \in UserTokenInputs, user_id \in UserIdInputs,
          is_active \in BOOLEAN :
            UpdateUserStatusStart(session_token, user_id, is_active)
    \/ \E m \in 1..Len(user_requests) : UserUpdate(m)

SpecUsers == InitStore /\ [][NextUsers]_vars

\* C30: if at least one active user with role Admin exists, then after any
\* sequence and interleaving of update_user_role and update_user_status calls at
\* least one active Admin still exists.
C30_ActiveAdminRemains ==
    \E id \in DOMAIN users : users[id].role = "Admin" /\ users[id].is_active

====
